---- MODULE Spec2Model ----
(***************************************************************************)
(* Round-based engine of the wireless sensor network simulator: the node   *)
(* model, the first-order radio energy model, K-Means clustering, the      *)
(* LEACH and ZCR protocols, and the simulation driver as a caller that    *)
(* keeps advancing rounds uses it.                                         *)
(*                                                                         *)
(* Number representation.  The source computes in f32.                     *)
(*   - Positions lie on a grid of 50 m cells, a position is <<x, y>> in    *)
(*     cells (the base station, at (250 m, 250 m), is cell <<5, 5>>).      *)
(*   - A distance and an energy are f32 values (metres, joules), computed  *)
(*     operation by operation in the order the source computes them: the   *)
(*     energy of a node carries the rounding of every charge it has paid.  *)
(*   - A probability is the f32 nearest to the fraction <<num, den>>,      *)
(*     den > 0.                                                            *)
(*   - A centroid is [sx, sy, c], the sum of the member positions (cells)  *)
(*     and their number; its coordinates are the f32 quotients             *)
(*     50 * sx / c and 50 * sy / c (metres).                               *)
(*   - The f32 section below does the arithmetic: every operation rounds   *)
(*     to single precision.                                                *)
(***************************************************************************)
EXTENDS Integers, Sequences, FiniteSets, TLC

VARIABLES
    status,                     \* "new", "running", "construction_failed", "aborted"
    nodes,                      \* Simulator::nodes, a function 0..n-1 -> Node
    current_round,              \* Simulator::current_round
    alive_node_count,           \* Simulator::alive_node_count
    protocol,                   \* the Leach or Zcr instance
    args,                       \* the constructor arguments of this run
    pre_nodes,                  \* nodes as they were when the last round began
    selected_cluster_head_ids,  \* run_round's local of the same name, last round
    kmeans,                     \* the KMeans instance of the last round
    call                        \* a call of a function of utils.rs: its input and result

vars == <<status, nodes, current_round, alive_node_count, protocol, args,
          pre_nodes, selected_cluster_head_ids, kmeans, call>>

----------------------------------------------------------------------------
(* Bounds of the model *)

\* Largest node_count handed to Simulator::new.
MaxNodes == 2

\* Rounds after which the bounded run loop of Spec stops calling update.
MaxRound == 9

\* Rounds after which the long runs of SpecLong stop calling update.
MaxRoundLong == 5010

\* Rounds after which the Zcr runs of SpecZcr stop calling update.
MaxRoundZcr == 70

\* Rounds after which the Leach runs of SpecCycle stop calling update.
MaxRoundCycle == 24

\* Rounds after which the Leach runs of SpecLeach stop calling update.
MaxRoundLeach == 10

\* Rounds after which the Zcr run of SpecDeath stops calling update.
MaxRoundRelay == 3860

\* Largest node list handed to KMeans::fit on its own.
MaxFitNodes == 3

\* The distances handed to the radio model on its own lie within this many
\* f32 steps (of 2^-17 m) of the free-space/multipath threshold, or are a
\* whole number of decimetres within this many decimetres of it.
DistanceSpan == 60

----------------------------------------------------------------------------
(* config.rs *)

\* 2.0
INITIAL_NODE_ENERGY_J == [s |-> 1, m |-> 8388608, e |-> -22]

\* 5e-8 as f32: 14073749 * 2^-48
ENERGY_PER_BIT_ELECTRONICS_J == [s |-> 1, m |-> 14073749, e |-> -48]

\* 1e-11 as f32: 11529215 * 2^-60
ENERGY_FREE_SPACE_AMP_J == [s |-> 1, m |-> 11529215, e |-> -60]

\* 1.3e-15 as f32: 12278153 * 2^-73
ENERGY_MULTIPATH_AMP_J == [s |-> 1, m |-> 12278153, e |-> -73]

\* 5e-9 as f32: 11258999 * 2^-51
ENERGY_AGGREGATION_J == [s |-> 1, m |-> 11258999, e |-> -51]

\* 4000.0
DATA_PACKET_SIZE_BITS == [s |-> 1, m |-> 16384000, e |-> -12]

\* 87.7 as f32: 11495014 * 2^-17
FS_MULTIPATH_THRESHOLD_DISTANCE_M == [s |-> 1, m |-> 11495014, e |-> -17]

MAX_SIMULATION_ROUNDS == 2000

\* DEPLOYMENT_AREA_WIDTH_M = DEPLOYMENT_AREA_HEIGHT_M = 500 m, in cells.
DEPLOYMENT_AREA_CELLS == 10

BASE_STATION_POSITION == <<5, 5>>

\* CLUSTER_HEAD_PROBABILITY = 0.1
CLUSTER_HEAD_PROBABILITY == <<1, 10>>


\* Option::None of an Option<usize>.
None == -1

\* usize::MAX, what a float -> usize cast saturates to (stand-in: the largest
\* integer of the checker; only ever used as a modulus larger than any round).
USIZE_MAX == 2147483647

----------------------------------------------------------------------------
(* glam::Vec2 helpers *)

\* A Vec<T> filled from the function f: f itself, every element computed once.
Collected(f) == CHOOSE g \in {f} : g = f

----------------------------------------------------------------------------
(* f32 *)

\* An f32 is [s, m, e], of value s * m * 2^e, with s the sign (1 or -1) and
\* m either 0 or a 24-bit mantissa, 2^23 <= m < 2^24.  Every operation
\* rounds its exact result to the nearest such value, ties to the even
\* mantissa, as IEEE 754 single precision does.  The values of the program
\* stay far from the subnormal and the overflow range; a division by zero
\* is decided where it is written.
F32Zero == [s |-> 1, m |-> 0, e |-> 0]

\* Number of binary digits of n, 0 <= n < 2^31.
RECURSIVE BitLength(_)
BitLength(n) ==
    IF n >= 256 THEN 8 + BitLength(n \div 256)
    ELSE IF n >= 16 THEN 4 + BitLength(n \div 16)
    ELSE IF n >= 8 THEN 4
    ELSE IF n >= 4 THEN 3
    ELSE IF n >= 2 THEN 2
    ELSE n

\* The f32 nearest to s * (q + (r + f) / (2 * half)) * 2^e, where q is a
\* 24-bit mantissa, r < 2 * half, and 0 < f < 1 when sticky holds, f = 0
\* otherwise.
F32RoundMantissa(s, q, r, half, e, sticky) ==
    IF r > half \/ (r = half /\ (sticky \/ q % 2 = 1))
    THEN IF q + 1 = 16777216
         THEN [s |-> s, m |-> 8388608, e |-> e + 1]
         ELSE [s |-> s, m |-> q + 1, e |-> e]
    ELSE [s |-> s, m |-> q, e |-> e]

\* F32Round for an n of l binary digits.
F32RoundDigits(s, n, e, sticky, l) ==
    IF l <= 24 THEN [s |-> s, m |-> n * 2^(24 - l), e |-> e - (24 - l)]
    ELSE F32RoundMantissa(s, n \div 2^(l - 24), n % 2^(l - 24), 2^(l - 25),
                          e + (l - 24), sticky)

\* The f32 nearest to s * (n + f) * 2^e, where 0 < f < 1 when sticky holds and
\* f = 0 otherwise; sticky requires n >= 2^24.
F32Round(s, n, e, sticky) ==
    IF n = 0 THEN F32Zero ELSE F32RoundDigits(s, n, e, sticky, BitLength(n))

\* The f32 nearest to v * 2^e, |v| < 2^31.
F32Scaled(v, e) == IF v < 0 THEN F32Round(-1, 0 - v, e, FALSE) ELSE F32Round(1, v, e, FALSE)

\* `n as f32`, |n| < 2^31.
F32FromInt(n) == F32Scaled(n, 0)

F32Neg(x) == [x EXCEPT !.s = 0 - x.s]

\* x * y: the 48-bit product of the mantissas, from their 12-bit halves
\* (x.m = a1 * 2^12 + a0, y.m = b1 * 2^12 + b0).
F32Mul(x, y) ==
    LET Product(hi, lo) ==
            F32Round(x.s * y.s, hi * 64 + lo \div 262144, x.e + y.e + 18,
                     lo % 262144 # 0)
        Carried(high, mid, low) ==
            Product(high + mid \div 4096 + low \div 16777216, low % 16777216)
        Partial(high, mid, low) ==
            Carried(high, mid, low + (mid % 4096) * 4096)
        Halves(a1, a0, b1, b0) ==
            Partial(a1 * b1, a1 * b0 + a0 * b1, a0 * b0)
    IN  IF x.m = 0 \/ y.m = 0 THEN F32Zero
        ELSE Halves(x.m \div 4096, x.m % 4096, y.m \div 4096, y.m % 4096)

\* One step of the long division by d: seven more digits of the quotient.
F32DivStep(qr, d) == <<qr[1] * 128 + (qr[2] * 128) \div d, (qr[2] * 128) % d>>

\* x / y, y # 0: 28 binary digits of the quotient of the mantissas.
F32Div(x, y) ==
    LET Quotient(qr) == F32Round(x.s * y.s, qr[1], x.e - y.e - 28, qr[2] # 0)
    IN  IF x.m = 0 THEN F32Zero
        ELSE Quotient(F32DivStep(F32DivStep(F32DivStep(F32DivStep(
                          <<x.m \div y.m, x.m % y.m>>, y.m), y.m), y.m), y.m))

\* x + y, with hi the operand of the larger exponent, d the difference of the
\* exponents.
F32AddOrdered(hi, lo, d) ==
    LET Far(b, t, sticky) ==
            IF hi.s = lo.s THEN F32Round(hi.s, b + t, hi.e - 6, sticky)
            ELSE IF sticky THEN F32Round(hi.s, b - t - 1, hi.e - 6, TRUE)
            ELSE F32Round(hi.s, b - t, hi.e - 6, FALSE)
    IN  IF d <= 6 THEN F32Scaled(hi.s * hi.m * 2^d + lo.s * lo.m, lo.e)
        ELSE IF d >= 30 THEN Far(hi.m * 64, 0, TRUE)
        ELSE Far(hi.m * 64, lo.m \div 2^(d - 6), lo.m % 2^(d - 6) # 0)

F32Add(x, y) ==
    IF x.m = 0 THEN y
    ELSE IF y.m = 0 THEN x
    ELSE IF x.e >= y.e THEN F32AddOrdered(x, y, x.e - y.e)
    ELSE F32AddOrdered(y, x, y.e - x.e)

F32Sub(x, y) == F32Add(x, F32Neg(y))

\* The digit-by-digit square root: one binary digit of the root for two of
\* the radicand n, from digit pair i of n down to pair last; below pair 0 the
\* digits are zeros.  r is the remainder with the next pair appended.  The
\* result is <<root, remainder>>.
RECURSIVE F32SqrtDigits(_, _, _, _, _)
F32SqrtDigits(n, i, last, r, root) ==
    IF r >= root * 4 + 1
    THEN IF i = last THEN <<root * 2 + 1, r - (root * 4 + 1)>>
         ELSE F32SqrtDigits(n, i - 1, last,
                            (r - (root * 4 + 1)) * 4
                                + (IF i >= 1 THEN (n \div 4^(i - 1)) % 4 ELSE 0),
                            root * 2 + 1)
    ELSE IF i = last THEN <<root * 2, r>>
         ELSE F32SqrtDigits(n, i - 1, last,
                            r * 4 + (IF i >= 1 THEN (n \div 4^(i - 1)) % 4 ELSE 0),
                            root * 2)

\* sqrt(x), x >= 0: 26 binary digits of the root of the mantissa, taken with
\* an even exponent.
F32Sqrt(x) ==
    LET Root(rr, e) == F32Round(1, rr[1], e \div 2 - 13, rr[2] # 0)
        Radicand(n, e) == Root(F32SqrtDigits(n, 12, -13, n \div 16777216, 0), e)
    IN  IF x.m = 0 THEN F32Zero
        ELSE Radicand(x.m * 2^(x.e % 2), x.e - (x.e % 2))

\* |x| < |y|
F32MagLess(x, y) ==
    IF y.m = 0 THEN FALSE
    ELSE IF x.m = 0 THEN TRUE
    ELSE x.e < y.e \/ (x.e = y.e /\ x.m < y.m)

\* x < y
F32Less(x, y) ==
    IF x.s = -1 /\ x.m # 0
    THEN IF y.s = -1 /\ y.m # 0 THEN F32MagLess(y, x) ELSE TRUE
    ELSE IF y.s = -1 /\ y.m # 0 THEN FALSE ELSE F32MagLess(x, y)

\* x.min(y)
F32Min(x, y) == IF F32Less(y, x) THEN y ELSE x

\* `x as usize`: towards zero, a negative value to 0, a large one saturating.
F32ToUsize(x) ==
    IF x.m = 0 \/ x.s = -1 THEN 0
    ELSE IF x.e > 7 THEN 2147483647
    ELSE IF x.e >= 0 THEN x.m * 2^x.e
    ELSE IF x.e <= -24 THEN 0
    ELSE x.m \div 2^(0 - x.e)

\* x.ceil()
F32Ceil(x) ==
    IF x.m = 0 \/ x.e >= 0 THEN x
    ELSE IF x.s = -1
         THEN IF x.e <= -24 THEN F32Zero
              ELSE F32Round(-1, x.m \div 2^(0 - x.e), 0, FALSE)
    ELSE IF x.e <= -24 THEN F32FromInt(1)
    ELSE F32Round(1, (x.m + 2^(0 - x.e) - 1) \div 2^(0 - x.e), 0, FALSE)

\* The f32 nearest to the fraction p = <<num, den>>.
F32Probability(p) == F32Div(F32FromInt(p[1]), F32FromInt(p[2]))

\* x <= y
F32LessEq(x, y) == ~F32Less(y, x)

\* A coordinate of cells cells, in metres.
F32Metres(cells) == F32FromInt(50 * cells)

\* Vec2::length of (dx, dy): (dx * dx + dy * dy).sqrt()
F32Length(dx, dy) == F32Sqrt(F32Add(F32Mul(dx, dx), F32Mul(dy, dy)))

\* (a - b).length() for two node positions.
PositionDistance(a, b) ==
    F32Length(F32Sub(F32Metres(a[1]), F32Metres(b[1])),
              F32Sub(F32Metres(a[2]), F32Metres(b[2])))

\* The differences of two coordinates of the deployment area, in cells.
GridOffsets == (0 - DEPLOYMENT_AREA_CELLS) .. DEPLOYMENT_AREA_CELLS

\* PositionDistance for every difference of two grid positions, computed
\* once: the coordinates are whole numbers of metres, so that a - b is exact
\* and the distance depends on the difference alone.
OffsetDistance ==
    Collected([dx \in GridOffsets, dy \in GridOffsets |->
                  PositionDistance(<<dx, dy>>, <<0, 0>>)])

\* (a - b).length() for two node positions, looked up where it is on record.
Distance(a, b) ==
    IF a[1] - b[1] \in GridOffsets /\ a[2] - b[2] \in GridOffsets
    THEN OffsetDistance[a[1] - b[1], a[2] - b[2]]
    ELSE PositionDistance(a, b)

----------------------------------------------------------------------------
(* utils.rs: the radio energy model *)

\* Faulty variant: the amplifier term subtracted instead of added.
MutTransmitNegative(data_size_bits, distance_m) ==
    F32Sub(F32Mul(data_size_bits, ENERGY_PER_BIT_ELECTRONICS_J),
           F32Mul(F32Mul(data_size_bits, ENERGY_FREE_SPACE_AMP_J),
                  F32Mul(distance_m, distance_m)))

\* Faulty variant: the boundary left out of the free-space side.
MutWithinThresholdExclusive(distance_m) ==
    F32Less(distance_m, FS_MULTIPATH_THRESHOLD_DISTANCE_M)

\* distance_m <= FS_MULTIPATH_THRESHOLD_DISTANCE_M
WithinThreshold(distance_m) ==
    F32LessEq(distance_m, FS_MULTIPATH_THRESHOLD_DISTANCE_M)

\* The electronics term, then += the amplifier term: bits * E_fs * d.powi(2)
\* up to the threshold, bits * E_mp * d.powi(4) beyond it; powi(2) is d * d
\* and powi(4) is (d * d) * (d * d).
calculate_transmit_energy(data_size_bits, distance_m) ==
    LET Squared(sq) ==
            F32Add(F32Mul(data_size_bits, ENERGY_PER_BIT_ELECTRONICS_J),
                   IF WithinThreshold(distance_m)
                   THEN F32Mul(F32Mul(data_size_bits, ENERGY_FREE_SPACE_AMP_J), sq)
                   ELSE F32Mul(F32Mul(data_size_bits, ENERGY_MULTIPATH_AMP_J),
                               F32Mul(sq, sq)))
    IN  Squared(F32Mul(distance_m, distance_m))

\* calculate_transmit_energy(DATA_PACKET_SIZE_BITS, d) for every distance d
\* between two grid positions, computed once.
PacketEnergyOfDistance ==
    Collected([d \in {OffsetDistance[o] : o \in DOMAIN OffsetDistance} |->
                  calculate_transmit_energy(DATA_PACKET_SIZE_BITS, d)])

\* calculate_transmit_energy(DATA_PACKET_SIZE_BITS, distance_m), looked up
\* where it is on record.
PacketEnergy(distance_m) ==
    IF distance_m \in DOMAIN PacketEnergyOfDistance
    THEN PacketEnergyOfDistance[distance_m]
    ELSE calculate_transmit_energy(DATA_PACKET_SIZE_BITS, distance_m)

\* bits * E_elec
calculate_receive_energy(data_size_bits) ==
    F32Mul(data_size_bits, ENERGY_PER_BIT_ELECTRONICS_J)

\* bits * E_agg
calculate_aggregation_energy(data_size_bits) ==
    F32Mul(data_size_bits, ENERGY_AGGREGATION_J)

\* calculate_receive_energy(DATA_PACKET_SIZE_BITS)
\*   + calculate_aggregation_energy(DATA_PACKET_SIZE_BITS)
ReceiveAndAggregate ==
    F32Add(calculate_receive_energy(DATA_PACKET_SIZE_BITS),
           calculate_aggregation_energy(DATA_PACKET_SIZE_BITS))

\* Faulty variant: the member list survives the reset.
MutResetKeepsMembers(node) ==
    [node EXCEPT !.is_cluster_head = FALSE,
                 !.cluster_head_id = None]

reset_node_for_new_round(node) ==
    [node EXCEPT !.is_cluster_head = FALSE,
                 !.cluster_head_id = None,
                 !.cluster_member_ids = <<>>]

----------------------------------------------------------------------------
(* node.rs *)

NodeNew(id, position) ==
    [id |-> id,
     position |-> position,
     remaining_energy_j |-> INITIAL_NODE_ENERGY_J,
     is_alive |-> TRUE,
     is_cluster_head |-> FALSE,
     is_eligible_for_ch |-> TRUE,
     distance_to_base_station_m |-> Distance(BASE_STATION_POSITION, position),
     cluster_head_id |-> None,
     cluster_member_ids |-> <<>>]

\* The positions create_wsn draws from: grid points of the model, kept when
\* they lie in [1 m, width) x [1 m, height).
PositionChoices == {<<4, 4>>, <<1, 1>>, <<9, 9>>}

RangePositions(width, height) ==
    {p \in PositionChoices : p[1] >= 1 /\ p[1] < width /\ p[2] >= 1 /\ p[2] < height}

\* random_range(1.0..width) panics on an empty range (width <= 1 m, which for
\* a whole number of cells is width <= 0); it is only reached when there is a
\* node to place.
CreateWsnPanics(width, height, n_nodes) ==
    n_nodes > 0 /\ (width <= 0 \/ height <= 0)

\* Networks of more than MaxNodes nodes are not enumerated in full: these
\* layouts stand for them (a far pair with a near node between them, in the
\* three orders that put the near node first, in the middle and last).
ScenarioLayouts ==
    {<<<<1, 1>>, <<9, 9>>, <<4, 4>>>>,
     <<<<1, 1>>, <<4, 4>>, <<9, 9>>>>,
     <<<<4, 4>>, <<1, 1>>, <<1, 1>>>>}

\* The node counts the model constructs networks for.
NodeCounts == (0 .. MaxNodes) \cup {Len(l) : l \in ScenarioLayouts}

\* The placements create_wsn can draw for n_nodes nodes: layout[id] is the
\* position of node id.
Layouts(width, height, n_nodes) ==
    IF n_nodes <= MaxNodes
    THEN [0 .. n_nodes - 1 -> RangePositions(width, height)]
    ELSE {[id \in 0 .. n_nodes - 1 |-> l[id + 1]] :
            l \in {x \in ScenarioLayouts :
                      /\ Len(x) = n_nodes
                      /\ \A k \in 1 .. Len(x) : x[k] \in RangePositions(width, height)}}

\* Every network create_wsn can return.
CreateWsn(width, height, n_nodes) ==
    {[id \in 0 .. n_nodes - 1 |-> NodeNew(id, layout[id])] :
        layout \in Layouts(width, height, n_nodes)}

NodeCount(ns) == Cardinality(DOMAIN ns)

----------------------------------------------------------------------------
(* leach.rs *)

\* Faulty variant: 1 / p rounded to the nearest integer.
MutCycleLengthRounded(p) ==
    IF p[1] = 0 THEN USIZE_MAX
    ELSE IF p[1] < 0 THEN 0
    ELSE (2 * p[2] + p[1]) \div (2 * p[1])

\* (1.0 / p) as usize: the f32 quotient, truncated toward zero, saturating
\* (1/0 = inf -> MAX, a negative quotient -> 0).
CycleLength(p) ==
    IF p[1] = 0 THEN USIZE_MAX
    ELSE F32ToUsize(F32Div(F32FromInt(1), F32Probability(p)))

LeachNew(p) ==
    [kind |-> "Leach",
     election_threshold |-> F32Zero,
     cluster_head_probability |-> p,
     cycle_length_rounds |-> CycleLength(p)]

\* Faulty variant: the threshold left at p in every round of the cycle.
MutThresholdPlain(p, cycle_length_rounds, round) == F32Probability(p)

\* update_election_threshold: (p / (1 - p * r_mod)).min(1.0), each operation
\* in f32.  A zero denominator is only reached with p > 0 and gives +inf,
\* which min turns into 1; a negative denominator gives a negative threshold,
\* which min leaves alone.
ElectionThreshold(p, cycle_length_rounds, round) ==
    LET Threshold(denom) ==
            IF denom.m = 0 THEN F32FromInt(1)
            ELSE F32Min(F32Div(F32Probability(p), denom), F32FromInt(1))
        Denominator(r_mod) ==
            Threshold(F32Sub(F32FromInt(1), F32Mul(F32Probability(p), r_mod)))
    IN  Denominator(F32FromInt(round % cycle_length_rounds))

\* Faulty variant: a draw that can fail or succeed at any threshold.
MutDrawMayFail(t) == {TRUE, FALSE}

\* The outcomes of rng.random::<f32>() < election_threshold: the draw is a
\* multiple of 2^-24 in [0, 1), so it can succeed when the threshold is
\* positive and fail when the threshold is below 1.
DrawOutcomes(t) ==
    {b \in BOOLEAN : (b => F32Less(F32Zero, t)) /\ (~b => F32Less(t, F32FromInt(1)))}

\* The draws of one round, one per node.  The draw of a node that is dead,
\* depleted or not eligible decides nothing: one outcome stands for both.
LeachDraws(self, ns, round, threshold) ==
    {draws \in [DOMAIN ns -> BOOLEAN] :
        \A i \in DOMAIN ns :
            /\ draws[i] \in DrawOutcomes(threshold)
            /\ (~(/\ ns[i].is_alive
                  /\ F32Less(F32Zero, ns[i].remaining_energy_j)
                  /\ (ns[i].is_eligible_for_ch \/ round % self.cycle_length_rounds = 0))
                => draws[i] = (CHOOSE b \in DrawOutcomes(threshold) : TRUE))}

\* Faulty variant: the election does not look at the eligibility flag.
MutLeachPhase1IgnoresEligibility(self, round, node, draw) ==
    LET n1 == reset_node_for_new_round(node)
        n2 == IF round % self.cycle_length_rounds = 0
              THEN [n1 EXCEPT !.is_eligible_for_ch = TRUE] ELSE n1
    IN  IF n2.is_alive /\ F32LessEq(n2.remaining_energy_j, F32Zero)
        THEN [n2 EXCEPT !.is_alive = FALSE]
        ELSE IF draw /\ n2.is_alive
        THEN [n2 EXCEPT !.is_cluster_head = TRUE, !.is_eligible_for_ch = FALSE]
        ELSE n2

\* Phase 1 of Leach::run_round for one node, given its draw.
LeachPhase1Node(self, round, node, draw) ==
    LET n1 == reset_node_for_new_round(node)
        n2 == IF round % self.cycle_length_rounds = 0
              THEN [n1 EXCEPT !.is_eligible_for_ch = TRUE] ELSE n1
    IN  IF n2.is_alive /\ F32LessEq(n2.remaining_energy_j, F32Zero)
        THEN [n2 EXCEPT !.is_alive = FALSE]
        ELSE IF draw /\ n2.is_alive /\ n2.is_eligible_for_ch
        THEN [n2 EXCEPT !.is_cluster_head = TRUE, !.is_eligible_for_ch = FALSE]
        ELSE n2

\* Faulty variant: the death test without its is_alive guard, so that a
\* dead node costs a decrement in every round.
MutMarkedDeadEveryRound(before, after) ==
    {i \in DOMAIN before : ~after[i].is_alive}

\* The nodes phase 1 marks dead: each costs one alive_node_count decrement.
MarkedDead(before, after) ==
    {i \in DOMAIN before : before[i].is_alive /\ ~after[i].is_alive}

\* Faulty variant: on equal distances the later cluster head wins.
RECURSIVE MutNearestChKeepsLast(_, _, _, _, _, _)
MutNearestChKeepsLast(ns, node_id, cluster_head_ids, k, min_distance_m, nearest_ch_id) ==
    IF k > Len(cluster_head_ids) THEN <<nearest_ch_id, min_distance_m>>
    ELSE LET ch_id == cluster_head_ids[k]
             distance == Distance(ns[node_id].position, ns[ch_id].position)
         IN  IF nearest_ch_id = None \/ F32LessEq(distance, min_distance_m)
             THEN MutNearestChKeepsLast(ns, node_id, cluster_head_ids, k + 1,
                                        distance, ch_id)
             ELSE MutNearestChKeepsLast(ns, node_id, cluster_head_ids, k + 1,
                                        min_distance_m, nearest_ch_id)

\* The scan of form_clusters for one node: the first cluster head, in the
\* order of cluster_head_ids, at minimum distance (strict <).
RECURSIVE NearestCh(_, _, _, _, _, _)
NearestCh(ns, node_id, cluster_head_ids, k, min_distance_m, nearest_ch_id) ==
    IF k > Len(cluster_head_ids) THEN <<nearest_ch_id, min_distance_m>>
    ELSE LET ch_id == cluster_head_ids[k]
             distance == Distance(ns[node_id].position, ns[ch_id].position)
         IN  IF nearest_ch_id = None \/ F32Less(distance, min_distance_m)
             THEN NearestCh(ns, node_id, cluster_head_ids, k + 1, distance, ch_id)
             ELSE NearestCh(ns, node_id, cluster_head_ids, k + 1,
                            min_distance_m, nearest_ch_id)

\* The node ids 0 .. n - 1 in the order the loops visit them.
NodeIds(ns) == [k \in 1 .. NodeCount(ns) |-> k - 1]

\* Faulty variant: a dead node joins a cluster like an alive one.
MutLeachJoinsDead(node) == ~node.is_cluster_head

\* if nodes[node_id].is_alive && !nodes[node_id].is_cluster_head
LeachJoins(node) == node.is_alive /\ ~node.is_cluster_head

\* Leach::form_clusters.  The loop visits the nodes in id order; what it
\* does for a node depends on the positions and the elected cluster heads
\* alone: found[i] is the result of the scan for node i (None for a node
\* that does not join).  A member is charged its packet to the cluster head
\* and points at it; a cluster head gets its members pushed in id order.
LeachFormClusters(ns, cluster_head_ids) ==
    LET Formed(found) ==
            [i \in DOMAIN ns |->
                LET IsMember(m) == found[m][1] = i
                IN  IF found[i][1] # None
                    THEN [ns[i] EXCEPT
                            !.cluster_head_id = found[i][1],
                            !.remaining_energy_j = F32Sub(@, PacketEnergy(found[i][2]))]
                    ELSE IF ns[i].is_cluster_head
                    THEN [ns[i] EXCEPT
                            !.cluster_member_ids = @ \o SelectSeq(NodeIds(ns), IsMember)]
                    ELSE ns[i]]
    IN  Formed(Collected([i \in DOMAIN ns |->
                  IF LeachJoins(ns[i])
                  THEN NearestCh(ns, i, cluster_head_ids, 1, F32Zero, None)
                  ELSE <<None, F32Zero>>]))

\* Faulty variant: every alive node pays an uplink, elected or not.
MutLeachDissipateEveryNode(ns, cluster_head_ids) ==
    [i \in DOMAIN ns |->
        IF ns[i].is_alive
        THEN [ns[i] EXCEPT !.remaining_energy_j =
                F32Sub(@, PacketEnergy(ns[i].distance_to_base_station_m))]
        ELSE ns[i]]

\* Faulty variant: one receive and aggregation per cluster head, whatever
\* the number of its members.
MutLeachDissipateFlatReceive(ns, cluster_head_ids) ==
    [i \in DOMAIN ns |->
        IF \E k \in DOMAIN cluster_head_ids : cluster_head_ids[k] = i
        THEN [ns[i] EXCEPT !.remaining_energy_j =
                F32Sub(F32Sub(@, ReceiveAndAggregate),
                       PacketEnergy(ns[i].distance_to_base_station_m))]
        ELSE ns[i]]

\* Phase 3 of Leach::run_round: every elected cluster head (each id stands
\* once in cluster_head_ids) that is alive is charged twice,
\* (rx + agg) * member_count and then the uplink.
LeachDissipate(ns, cluster_head_ids) ==
    [i \in DOMAIN ns |->
        IF (\E k \in DOMAIN cluster_head_ids : cluster_head_ids[k] = i) /\ ns[i].is_alive
        THEN [ns[i] EXCEPT !.remaining_energy_j =
                F32Sub(F32Sub(@, F32Mul(ReceiveAndAggregate,
                                        F32FromInt(Len(ns[i].cluster_member_ids)))),
                       PacketEnergy(ns[i].distance_to_base_station_m))]
        ELSE ns[i]]

\* The modulo of update_election_threshold panics on a zero cycle length.
LeachRoundPanics(self) == self.cycle_length_rounds = 0

\* Phases 2 and 3 of Leach::run_round, from the nodes phase 1 left and the
\* ids it elected.
LeachPhases23(ns, elected, cluster_head_ids) ==
    [nodes |-> Collected(LeachDissipate(
                  Collected(LeachFormClusters(elected, cluster_head_ids)),
                  cluster_head_ids)),
     died |-> Cardinality(MarkedDead(ns, elected)),
     selected |-> cluster_head_ids]

\* selected_cluster_head_ids after phase 1: the elected ids, in id order.
LeachElectedIds(elected) ==
    LET IsHead(i) == elected[i].is_cluster_head
    IN  SelectSeq(NodeIds(elected), IsHead)

\* Leach::run_round from the nodes phase 1 left.
LeachAfterPhase1(ns, elected) == LeachPhases23(ns, elected, LeachElectedIds(elected))

\* Leach::run_round with the draws given: draws[i] is node i's draw.
LeachRunRound(self, ns, round, draws) ==
    LeachAfterPhase1(ns, Collected([i \in DOMAIN ns |->
                            LeachPhase1Node(self, round, ns[i], draws[i])]))

----------------------------------------------------------------------------
(* clustering.rs *)

MAX_ITER == 100

\* EPS = 1e-4, the f32 nearest to 1 / 10000.
EPS == F32Div(F32FromInt(1), F32FromInt(10000))

KMeansNew(n_clusters) ==
    [n_clusters |-> n_clusters, centroids |-> <<>>, clusters |-> <<>>,
     seeds |-> <<>>, iterations |-> 0]

\* A node position as a centroid.
PositionCentroid(position) == [sx |-> position[1], sy |-> position[2], c |-> 1]

\* The coordinates of a centroid: sum / count as f32, in metres.
CentroidX(centroid) == F32Div(F32Metres(centroid.sx), F32FromInt(centroid.c))

CentroidY(centroid) == F32Div(F32Metres(centroid.sy), F32FromInt(centroid.c))

\* (position - centroid).length()
CentroidDistance(position, centroid) ==
    F32Length(F32Sub(F32Metres(position[1]), CentroidX(centroid)),
              F32Sub(F32Metres(position[2]), CentroidY(centroid)))

\* dist < min_dist of the assignment step, for the distances of one position
\* to two centroids.
CentroidCloser(position, a, b) ==
    F32Less(CentroidDistance(position, a), CentroidDistance(position, b))

\* The assignment step for one node: scan the centroids in index order and
\* keep the first one at minimum distance.
RECURSIVE AssignNode(_, _, _, _)
AssignNode(position, centroids, index, best) ==
    IF index >= Cardinality(DOMAIN centroids) THEN best
    ELSE IF best = None \/ CentroidCloser(position, centroids[index], centroids[best])
    THEN AssignNode(position, centroids, index + 1, index)
    ELSE AssignNode(position, centroids, index + 1, best)

RECURSIVE SumOver(_, _, _)
SumOver(wsn, S, axis) ==
    IF S = {} THEN 0
    ELSE LET i == CHOOSE x \in S : TRUE
         IN  wsn[i].position[axis] + SumOver(wsn, S \ {i}, axis)

\* Faulty variant: the centroids are left where they were.
MutUpdateCentroidsKeepAll(wsn, centroids, clusters) == centroids

\* KMeans::update_centroids: the mean of each cluster's nodes; an empty
\* cluster keeps its centroid.
UpdateCentroids(wsn, centroids, clusters) ==
    Collected([i \in DOMAIN centroids |->
        LET members == {n \in DOMAIN wsn : clusters[n] = i}
        IN  IF Cardinality(members) > 0
            THEN [sx |-> SumOver(wsn, members, 1), sy |-> SumOver(wsn, members, 2),
                  c |-> Cardinality(members)]
            ELSE centroids[i]])

\* Faulty variant: a centroid that did not move at all does not count as
\* converged.
MutShiftPositiveBelowEps(a, b) ==
    LET shift == F32Length(F32Sub(CentroidX(a), CentroidX(b)),
                           F32Sub(CentroidY(a), CentroidY(b)))
    IN  F32Less(F32Zero, shift) /\ F32Less(shift, EPS)

\* (a - b).length() < EPS for a centroid before and after the update step;
\* max_shift < EPS holds when it holds of every centroid.
ShiftBelowEps(a, b) ==
    F32Less(F32Length(F32Sub(CentroidX(a), CentroidX(b)),
                      F32Sub(CentroidY(a), CentroidY(b))),
            EPS)

\* One pass of the loop of KMeans::fit on the state fit: the assignment step,
\* the update step and the convergence check, whose outcome is kept in the
\* field converged.
LloydIteration(wsn, fit) ==
    LET Converge(assigned, updated) ==
            [centroids |-> updated, clusters |-> assigned,
             iterations |-> fit.iterations + 1,
             converged |-> \A i \in DOMAIN fit.centroids :
                              ShiftBelowEps(fit.centroids[i], updated[i])]
        Update(assigned) ==
            Converge(assigned, UpdateCentroids(wsn, fit.centroids, assigned))
    IN  Update(Collected([i \in DOMAIN wsn |->
                   AssignNode(wsn[i].position, fit.centroids, 0, None)]))

\* The loop of KMeans::fit from the state fit on, for at most passes passes:
\* it ends at the break or when the passes are used up.  The passes are taken
\* as two halves, one after the other, which keeps the evaluation of
\* MAX_ITER passes shallow.
RECURSIVE Lloyd(_, _, _)
Lloyd(wsn, fit, passes) ==
    IF fit.converged \/ passes = 0 THEN fit
    ELSE IF passes = 1 THEN LloydIteration(wsn, fit)
    ELSE Lloyd(wsn, Lloyd(wsn, fit, passes \div 2), passes - passes \div 2)

\* rand::seq::index::sample(rng, length, amount) panics when amount > length.
SamplePanics(length, amount) == amount > length

\* Every result of sample: amount distinct indices below length, in any order.
Sample(length, amount) ==
    {s \in [0 .. amount - 1 -> 0 .. length - 1] :
        \A i, j \in 0 .. amount - 1 : i # j => s[i] # s[j]}

\* KMeans::fit with the sampled seeds given.
KMeansFit(n_clusters, wsn, seeds) ==
    LET Fitted(fitted) ==
            [n_clusters |-> n_clusters, centroids |-> fitted.centroids,
             clusters |-> fitted.clusters, seeds |-> seeds,
             iterations |-> fitted.iterations]
    IN  Fitted(Lloyd(wsn,
                     [centroids |-> Collected([i \in 0 .. n_clusters - 1 |->
                                       PositionCentroid(wsn[seeds[i]].position)]),
                      clusters |-> [i \in DOMAIN wsn |-> 0],
                      iterations |-> 0, converged |-> FALSE],
                     MAX_ITER))

----------------------------------------------------------------------------
(* zcr.rs *)

ZcrNew(p) ==
    [kind |-> "Zcr",
     num_cluster_heads |-> 0,
     cluster_head_probability |-> p,
     zone_cluster_heads |-> [z \in 0 .. 1 |-> <<>>]]

\* Faulty variant: floor + 1 in place of ceil.
MutDesiredFloorPlusOne(p, alive) == (p[1] * alive) \div p[2] + 1

\* (p * alive_node_count as f32).ceil() as usize: the f32 product, rounded up
\* to a whole number; a negative value casts to 0.
DesiredClusterHeads(p, alive) ==
    F32ToUsize(F32Ceil(F32Mul(F32Probability(p), F32FromInt(alive))))

\* score = remaining_energy_j / INITIAL_NODE_ENERGY_J
\*         - distance_to_centroid / 707.0, each operation in f32.
Score(remaining_energy_j, position, centroid) ==
    F32Sub(F32Div(remaining_energy_j, INITIAL_NODE_ENERGY_J),
           F32Div(CentroidDistance(position, centroid), F32FromInt(707)))

\* score_a > score_b for the scores of two nodes of one cluster.
ScoreExceeds(e_a, position_a, e_b, position_b, centroid) ==
    F32Less(Score(e_b, position_b, centroid), Score(e_a, position_a, centroid))

\* Faulty variant: score >= best_scores[cluster_idx].
MutScoreGreaterOrEqual(e_a, position_a, e_b, position_b, centroid) ==
    ~ScoreExceeds(e_b, position_b, e_a, position_a, centroid)

\* if score > best_scores[cluster_idx], with best_scores[cluster_idx] the
\* score of the node selected so far.
ScoreGreater(e_a, position_a, e_b, position_b, centroid) ==
    ScoreExceeds(e_a, position_a, e_b, position_b, centroid)

\* Faulty variant: a depleted node's is_alive flag is flipped, not cleared.
MutZcrMarkToggles(node) ==
    LET n1 == reset_node_for_new_round(node)
    IN  IF F32LessEq(n1.remaining_energy_j, F32Zero)
        THEN [n1 EXCEPT !.is_alive = ~n1.is_alive]
        ELSE n1

\* The first loop of Zcr::run_round for one node, up to the death marking.
ZcrMarkNode(node) ==
    LET n1 == reset_node_for_new_round(node)
    IN  IF n1.is_alive /\ F32LessEq(n1.remaining_energy_j, F32Zero)
        THEN [n1 EXCEPT !.is_alive = FALSE]
        ELSE n1

\* Faulty variant: a dead node is scored like any other.
RECURSIVE MutZcrSelectScoresDead(_, _, _, _)
MutZcrSelectScoresDead(ns, km, node_id, selected) ==
    IF node_id >= NodeCount(ns) THEN selected
    ELSE LET cluster_idx == km.clusters[node_id]
             centroid == km.centroids[cluster_idx]
             best == selected[cluster_idx]
         IN  IF best = None
                \/ ScoreGreater(ns[node_id].remaining_energy_j, ns[node_id].position,
                                ns[best].remaining_energy_j, ns[best].position,
                                centroid)
             THEN MutZcrSelectScoresDead(ns, km, node_id + 1,
                                         [selected EXCEPT ![cluster_idx] = node_id])
             ELSE MutZcrSelectScoresDead(ns, km, node_id + 1, selected)

\* The rest of that loop from node node_id on: per cluster, the first node
\* with the strictly highest score.  best_scores[c] is the score of
\* selected[c], NEG_INFINITY while selected[c] is None.
RECURSIVE ZcrSelect(_, _, _, _)
ZcrSelect(ns, km, node_id, selected) ==
    IF node_id >= NodeCount(ns) THEN selected
    ELSE IF ~ns[node_id].is_alive THEN ZcrSelect(ns, km, node_id + 1, selected)
    ELSE LET cluster_idx == km.clusters[node_id]
             centroid == km.centroids[cluster_idx]
             best == selected[cluster_idx]
         IN  IF best = None
                \/ ScoreGreater(ns[node_id].remaining_energy_j, ns[node_id].position,
                                ns[best].remaining_energy_j, ns[best].position,
                                centroid)
             THEN ZcrSelect(ns, km, node_id + 1,
                            [selected EXCEPT ![cluster_idx] = node_id])
             ELSE ZcrSelect(ns, km, node_id + 1, selected)

\* The selected ids in cluster order, None skipped (iter().flatten()).
RECURSIVE Flatten(_, _)
Flatten(selected, cluster_idx) ==
    IF cluster_idx >= Cardinality(DOMAIN selected) THEN <<>>
    ELSE (IF selected[cluster_idx] = None THEN <<>> ELSE <<selected[cluster_idx]>>)
         \o Flatten(selected, cluster_idx + 1)

\* The bucket assign_zones pushes a cluster head at this distance from the
\* base station into: 1 is the near zone, 0 the far zone.
ZoneOfDistance(distance_m) == IF WithinThreshold(distance_m) THEN 1 ELSE 0

\* Zcr::assign_zones: the buckets ([0] far, [1] near) and the CH flags.
ZoneBuckets(selected, ns) ==
    LET chs == Flatten(selected, 0)
        Near(ch_id) == ZoneOfDistance(ns[ch_id].distance_to_base_station_m) = 1
        Far(ch_id) == ZoneOfDistance(ns[ch_id].distance_to_base_station_m) = 0
    IN  [z \in 0 .. 1 |-> IF z = 1 THEN SelectSeq(chs, Near) ELSE SelectSeq(chs, Far)]

MarkClusterHeads(selected, ns) ==
    [i \in DOMAIN ns |->
        IF \E c \in DOMAIN selected : selected[c] = i
        THEN [ns[i] EXCEPT !.is_cluster_head = TRUE]
        ELSE ns[i]]

\* Faulty variant: every member joins the cluster head of group 0.
RECURSIVE MutZcrFormClustersFirstGroup(_, _, _, _)
MutZcrFormClustersFirstGroup(selected, ns, cluster_assignments, node_id) ==
    IF node_id >= Cardinality(DOMAIN cluster_assignments) THEN ns
    ELSE IF ~ns[node_id].is_alive \/ ns[node_id].is_cluster_head
    THEN MutZcrFormClustersFirstGroup(selected, ns, cluster_assignments, node_id + 1)
    ELSE LET ch_id == selected[0]
         IN  IF ch_id # None
             THEN MutZcrFormClustersFirstGroup(selected,
                    [ns EXCEPT
                        ![node_id].cluster_head_id = ch_id,
                        ![ch_id].cluster_member_ids = Append(@, node_id),
                        ![node_id].remaining_energy_j =
                            F32Sub(@, PacketEnergy(Distance(ns[node_id].position,
                                                   ns[ch_id].position)))],
                    cluster_assignments, node_id + 1)
             ELSE MutZcrFormClustersFirstGroup(selected, ns, cluster_assignments,
                                               node_id + 1)

\* Zcr::form_clusters from node node_id on.
RECURSIVE ZcrFormClusters(_, _, _, _)
ZcrFormClusters(selected, ns, cluster_assignments, node_id) ==
    IF node_id >= Cardinality(DOMAIN cluster_assignments) THEN ns
    ELSE IF ~ns[node_id].is_alive \/ ns[node_id].is_cluster_head
    THEN ZcrFormClusters(selected, ns, cluster_assignments, node_id + 1)
    ELSE LET ch_id == selected[cluster_assignments[node_id]]
         IN  IF ch_id # None
             THEN ZcrFormClusters(selected,
                    [ns EXCEPT
                        ![node_id].cluster_head_id = ch_id,
                        ![ch_id].cluster_member_ids = Append(@, node_id),
                        ![node_id].remaining_energy_j =
                            F32Sub(@, PacketEnergy(Distance(ns[node_id].position,
                                                   ns[ch_id].position)))],
                    cluster_assignments, node_id + 1)
             ELSE ZcrFormClusters(selected, ns, cluster_assignments, node_id + 1)

\* Faulty variant: a far cluster head never relays.
MutRelayNever(min_relay_distance, distance_to_bs) == FALSE

\* Faulty variant: a far cluster head relays over a distance equal to its own
\* distance to the base station.
MutRelayOnEqual(min_relay_distance, distance_to_bs) ==
    F32LessEq(min_relay_distance, distance_to_bs)

\* if min_relay_distance < nodes[far_ch_id].distance_to_base_station_m
RelayCloser(min_relay_distance, distance_to_bs) ==
    F32Less(min_relay_distance, distance_to_bs)

\* The far-zone loop of dissipate_cluster_head_energy from the k-th far CH on:
\* the far CH pays (rx + agg) * member_count, then its uplink or its relay
\* hop; the relaying near CH pays one rx + agg.
RECURSIVE DissipateFar(_, _, _)
DissipateFar(zones, ns, k) ==
    IF k > Len(zones[0]) THEN ns
    ELSE LET far_ch_id == zones[0][k]
             found == NearestCh(ns, far_ch_id, zones[1], 1, F32Zero, None)
             near_ch_id == found[1]
             min_relay_distance == found[2]
             member_count == F32FromInt(Len(ns[far_ch_id].cluster_member_ids))
             received == F32Sub(ns[far_ch_id].remaining_energy_j,
                                F32Mul(ReceiveAndAggregate, member_count))
         IN  IF near_ch_id # None
                /\ RelayCloser(min_relay_distance,
                               ns[far_ch_id].distance_to_base_station_m)
             THEN DissipateFar(zones,
                    [ns EXCEPT
                        ![far_ch_id].remaining_energy_j =
                            F32Sub(received,
                                   PacketEnergy(min_relay_distance)),
                        ![near_ch_id].remaining_energy_j =
                            F32Sub(@, ReceiveAndAggregate)],
                    k + 1)
             ELSE DissipateFar(zones,
                    [ns EXCEPT ![far_ch_id].remaining_energy_j =
                        F32Sub(received,
                               PacketEnergy(ns[far_ch_id].distance_to_base_station_m))],
                    k + 1)

\* The near-zone loop from the k-th near CH on.
RECURSIVE DissipateNear(_, _, _)
DissipateNear(zones, ns, k) ==
    IF k > Len(zones[1]) THEN ns
    ELSE LET near_ch_id == zones[1][k]
             member_count == F32FromInt(Len(ns[near_ch_id].cluster_member_ids))
         IN  DissipateNear(zones,
                [ns EXCEPT ![near_ch_id].remaining_energy_j =
                    F32Sub(F32Sub(@, F32Mul(member_count, ReceiveAndAggregate)),
                           PacketEnergy(ns[near_ch_id].distance_to_base_station_m))],
                k + 1)

DissipateClusterHeadEnergy(zones, ns) == DissipateNear(zones, DissipateFar(zones, ns, 1), 1)

\* Zcr::run_round returns at once without a node alive or a cluster head wanted.
ZcrRoundSkips(self, alive) ==
    alive = 0 \/ DesiredClusterHeads(self.cluster_head_probability, alive) = 0

\* Faulty variant: the clustering engine is reached with no cluster wanted and
\* aborts there.
MutZcrPanicsWithoutClusters(self, ns, alive) ==
    \/ DesiredClusterHeads(self.cluster_head_probability, alive) = 0
    \/ SamplePanics(NodeCount(ns), DesiredClusterHeads(self.cluster_head_probability, alive))

\* kmeans.fit panics in sample when asked for more clusters than nodes.
ZcrRoundPanics(self, ns, alive) ==
    /\ ~ZcrRoundSkips(self, alive)
    /\ SamplePanics(NodeCount(ns), DesiredClusterHeads(self.cluster_head_probability, alive))

\* Zcr::run_round from the zone buckets on: form_clusters, then
\* dissipate_cluster_head_energy.
ZcrDissipated(ns, km, marked, selected, zones) ==
    [nodes |-> DissipateClusterHeadEnergy(zones,
                  ZcrFormClusters(selected, MarkClusterHeads(selected, marked),
                                  km.clusters, 0)),
     died |-> Cardinality(MarkedDead(ns, marked)),
     selected |-> selected,
     zones |-> zones,
     kmeans |-> km]

\* Zcr::run_round from assign_zones on.
ZcrZoned(ns, km, marked, selected) ==
    ZcrDissipated(ns, km, marked, selected, ZoneBuckets(selected, marked))

\* Zcr::run_round from the selection of the cluster heads on.
ZcrSelected(ns, k, km, marked) ==
    ZcrZoned(ns, km, marked, ZcrSelect(marked, km, 0, [c \in 0 .. k - 1 |-> None]))

\* Zcr::run_round from kmeans.fit and the death marking on.
ZcrClustered(ns, seeds, k) ==
    ZcrSelected(ns, k, KMeansFit(k, ns, seeds),
                Collected([i \in DOMAIN ns |-> ZcrMarkNode(ns[i])]))

\* Zcr::run_round past the early returns, with the sampled seeds given.
ZcrRunRound(self, ns, alive, seeds) ==
    ZcrClustered(ns, seeds, DesiredClusterHeads(self.cluster_head_probability, alive))

----------------------------------------------------------------------------
(* simulator.rs and the callers of the library *)

\* The arguments the model hands to the constructors.
Probabilities == {<<0, 1>>, <<1, 2>>, <<1, 1>>, <<3, 2>>}

AreaSizes == {0, DEPLOYMENT_AREA_CELLS}

NoProtocol == [kind |-> "none"]

\* No function call on record.
NoCall == [fn |-> "none"]

ProtocolNew(kind, p) == IF kind = "Leach" THEN LeachNew(p) ELSE ZcrNew(p)

\* Faulty variant: the decrement forgotten.
MutAliveCountKept(alive, died) == alive

\* simulator.alive_node_count -= 1, once per node marked dead in the round.
AliveCountAfter(alive, died) == alive - died

Init ==
    /\ status = "new"
    /\ nodes = <<>>
    /\ current_round = 0
    /\ alive_node_count = 0
    /\ protocol = NoProtocol
    /\ args = [kind |-> "none", p |-> <<0, 1>>, width |-> 0, height |-> 0,
               node_count |-> 0]
    /\ pre_nodes = <<>>
    /\ selected_cluster_head_ids = <<>>
    /\ kmeans = KMeansNew(0)
    /\ call = NoCall

\* Simulator::new(width, height, node_count), then Leach::new(p) or Zcr::new(p).
Construct ==
    /\ status = "new"
    /\ \E kind \in {"Leach", "Zcr"}, p \in Probabilities,
          width \in AreaSizes, height \in AreaSizes, node_count \in NodeCounts :
        /\ args' = [kind |-> kind, p |-> p, width |-> width, height |-> height,
                    node_count |-> node_count]
        /\ IF CreateWsnPanics(width, height, node_count)
           THEN /\ status' = "construction_failed"
                /\ UNCHANGED <<nodes, current_round, alive_node_count, protocol>>
           ELSE /\ status' = "running"
                /\ nodes' \in CreateWsn(width, height, node_count)
                /\ current_round' = 0
                /\ alive_node_count' = node_count
                /\ protocol' = ProtocolNew(kind, p)
    /\ UNCHANGED <<pre_nodes, selected_cluster_head_ids, kmeans, call>>

\* The election threshold of the round that follows current_round.
NextThreshold ==
    ElectionThreshold(protocol.cluster_head_probability,
                      protocol.cycle_length_rounds, current_round + 1)

\* Simulator::update with a Leach protocol and the draws of the round given:
\* the round runs to its end.
LeachRoundDrawn(limit, draws) ==
    /\ status = "running"
    /\ protocol.kind = "Leach"
    /\ current_round < limit
    /\ ~LeachRoundPanics(protocol)
    /\ \E out \in {LeachRunRound(protocol, nodes, current_round + 1, draws)} :
         /\ current_round' = current_round + 1
         /\ protocol' = [protocol EXCEPT !.election_threshold = NextThreshold]
         /\ nodes' = out.nodes
         /\ alive_node_count' = AliveCountAfter(alive_node_count, out.died)
         /\ selected_cluster_head_ids' = out.selected
         /\ pre_nodes' = nodes
    /\ UNCHANGED <<status, args, kmeans, call>>

\* Simulator::update with a Leach protocol, whatever the draws.
LeachRound(limit) ==
    /\ status = "running"
    /\ protocol.kind = "Leach"
    /\ ~LeachRoundPanics(protocol)
    /\ \E draws \in LeachDraws(protocol, nodes, current_round + 1, NextThreshold) :
         LeachRoundDrawn(limit, draws)

\* Simulator::update with a Zcr protocol: the round clusters the nodes.
ZcrRound(limit) ==
    /\ status = "running"
    /\ protocol.kind = "Zcr"
    /\ current_round < limit
    /\ ~ZcrRoundSkips(protocol, alive_node_count)
    /\ ~ZcrRoundPanics(protocol, nodes, alive_node_count)
    /\ LET k == DesiredClusterHeads(protocol.cluster_head_probability, alive_node_count)
       IN  \E seeds \in Sample(NodeCount(nodes), k) :
             \E out \in {ZcrRunRound(protocol, nodes, alive_node_count, seeds)} :
                 /\ current_round' = current_round + 1
                 /\ protocol' = [protocol EXCEPT !.num_cluster_heads = k,
                                                 !.zone_cluster_heads = out.zones]
                 /\ nodes' = out.nodes
                 /\ alive_node_count' = AliveCountAfter(alive_node_count, out.died)
                 /\ selected_cluster_head_ids' = out.selected
                 /\ kmeans' = out.kmeans
                 /\ pre_nodes' = nodes
    /\ UNCHANGED <<status, args, call>>

\* Simulator::update with a Zcr protocol: run_round returns early.
ZcrSkippedRound(limit) ==
    /\ status = "running"
    /\ protocol.kind = "Zcr"
    /\ current_round < limit
    /\ ZcrRoundSkips(protocol, alive_node_count)
    /\ current_round' = current_round + 1
    /\ protocol' = IF alive_node_count = 0 THEN protocol
                   ELSE [protocol EXCEPT !.num_cluster_heads = 0]
    /\ pre_nodes' = nodes
    /\ selected_cluster_head_ids' = <<>>
    /\ kmeans' = KMeansNew(0)
    /\ UNCHANGED <<status, nodes, alive_node_count, args, call>>

\* Simulator::update whose run_round panics: the run ends there.
RoundPanics(limit) ==
    /\ status = "running"
    /\ current_round < limit
    /\ \/ protocol.kind = "Leach" /\ LeachRoundPanics(protocol)
       \/ protocol.kind = "Zcr" /\ ZcrRoundPanics(protocol, nodes, alive_node_count)
    /\ status' = "aborted"
    /\ current_round' = current_round + 1
    /\ protocol' = IF protocol.kind = "Zcr"
                   THEN [protocol EXCEPT !.num_cluster_heads =
                            DesiredClusterHeads(protocol.cluster_head_probability,
                                                alive_node_count)]
                   ELSE protocol
    /\ UNCHANGED <<nodes, alive_node_count, args, pre_nodes,
                   selected_cluster_head_ids, kmeans, call>>

LeachUpdate == LeachRound(MaxRound)
ZcrUpdate == ZcrRound(MaxRound)
ZcrSkippedUpdate == ZcrSkippedRound(MaxRound)
PanickingUpdate == RoundPanics(MaxRound)

Next == Construct \/ LeachUpdate \/ ZcrUpdate \/ ZcrSkippedUpdate \/ PanickingUpdate

Spec == Init /\ [][Next]_vars

----------------------------------------------------------------------------
(* Long runs: a caller that keeps calling Simulator::update, as the loop of  *)
(* main does, with cluster_head_probability = CLUSTER_HEAD_PROBABILITY and   *)
(* every node at INITIAL_NODE_ENERGY_J, until every node is depleted.        *)

\* The networks of these runs: under Leach a node at (50 m, 250 m), 200 m
\* from the base station, and a node at (50 m, 50 m); under Zcr a node at
\* (200 m, 200 m), and the pair (200 m, 200 m), (300 m, 300 m).
LongScenarios ==
    {[kind |-> "Leach", layout |-> <<<<1, 5>>>>],
     [kind |-> "Leach", layout |-> <<<<1, 1>>>>],
     [kind |-> "Zcr", layout |-> <<<<4, 4>>>>],
     [kind |-> "Zcr", layout |-> <<<<4, 4>>, <<6, 6>>>>]}

InitLong ==
    /\ status = "running"
    /\ \E scenario \in LongScenarios :
        /\ nodes = [id \in 0 .. Len(scenario.layout) - 1 |->
                        NodeNew(id, scenario.layout[id + 1])]
        /\ alive_node_count = Len(scenario.layout)
        /\ args = [kind |-> scenario.kind, p |-> CLUSTER_HEAD_PROBABILITY,
                   width |-> DEPLOYMENT_AREA_CELLS, height |-> DEPLOYMENT_AREA_CELLS,
                   node_count |-> Len(scenario.layout)]
        /\ protocol = ProtocolNew(scenario.kind, CLUSTER_HEAD_PROBABILITY)
    /\ current_round = 0
    /\ pre_nodes = <<>>
    /\ selected_cluster_head_ids = <<>>
    /\ kmeans = KMeansNew(0)
    /\ call = NoCall

LongLeachUpdate == LeachRound(MaxRoundLong)
LongZcrUpdate == ZcrRound(MaxRoundLong)
LongZcrSkippedUpdate == ZcrSkippedRound(MaxRoundLong)

NextLong == LongLeachUpdate \/ LongZcrUpdate \/ LongZcrSkippedUpdate

\* What a call of update does to the round counter: it returns with
\* current_round one more than it was.
RoundPass ==
    /\ status = "running"
    /\ current_round < MaxRoundLong
    /\ current_round' = current_round + 1

\* The caller keeps calling update: while a call can be made, one is made.
\* The calls are the steps of NextLong, each of which advances the counter;
\* on these networks no call of update panics.
SpecLong == InitLong /\ [][NextLong]_vars /\ WF_current_round(RoundPass)

----
(* Zcr runs on chosen networks: Simulator::update with a Zcr protocol, round *)
(* after round, until the nodes are depleted or the run aborts.              *)

\* The networks and probabilities of these runs: a far pair with a near node
\* between them; a far node and a node on the base station, as far from each
\* other as the far node is from the base station; a far pair without a near
\* node; a far group of two nodes and a near node; a far pair that depletes
\* itself; a probability above 1; one group of three nodes, two of them at
\* the same distance from the centroid (13/3, 16/3), whose f32 distances
\* differ in the last digit.
ZcrScenarios ==
    {[layout |-> <<<<1, 1>>, <<9, 9>>, <<4, 4>>>>, p |-> <<1, 1>>],
     [layout |-> <<<<1, 1>>, <<5, 5>>>>, p |-> <<1, 1>>],
     [layout |-> <<<<1, 1>>, <<9, 9>>>>, p |-> <<1, 1>>],
     [layout |-> <<<<1, 1>>, <<1, 2>>, <<4, 4>>>>, p |-> <<1, 2>>],
     [layout |-> <<<<1, 1>>, <<9, 9>>>>, p |-> <<1, 2>>],
     [layout |-> <<<<1, 1>>, <<9, 9>>>>, p |-> <<3, 2>>],
     [layout |-> <<<<1, 2>>, <<5, 8>>, <<7, 6>>>>, p |-> <<1, 4>>]}

InitZcr ==
    /\ status = "running"
    /\ \E scenario \in ZcrScenarios :
        /\ nodes = [id \in 0 .. Len(scenario.layout) - 1 |->
                        NodeNew(id, scenario.layout[id + 1])]
        /\ alive_node_count = Len(scenario.layout)
        /\ args = [kind |-> "Zcr", p |-> scenario.p,
                   width |-> DEPLOYMENT_AREA_CELLS, height |-> DEPLOYMENT_AREA_CELLS,
                   node_count |-> Len(scenario.layout)]
        /\ protocol = ZcrNew(scenario.p)
    /\ current_round = 0
    /\ pre_nodes = <<>>
    /\ selected_cluster_head_ids = <<>>
    /\ kmeans = KMeansNew(0)
    /\ call = NoCall

ZcrRunUpdate == ZcrRound(MaxRoundZcr)
ZcrRunSkippedUpdate == ZcrSkippedRound(MaxRoundZcr)
ZcrRunPanickingUpdate == RoundPanics(MaxRoundZcr)

NextZcr == ZcrRunUpdate \/ ZcrRunSkippedUpdate \/ ZcrRunPanickingUpdate

SpecZcr == InitZcr /\ [][NextZcr]_vars

----------------------------------------------------------------------------
(* Leach runs over whole rotation cycles: Leach::new(p) for probabilities    *)
(* in (0, 1] whose inverse is or is not a whole number, on a network of one  *)
(* node.                                                                     *)

\* 0.05, 0.1, 1/13, 1/7, 0.15, 0.2, 0.25, 1/3, 0.4, 0.5, 0.75 and 1.0.  The
\* f32 values of 0.05, 0.1 and 1/3 lie above the fraction and their inverse
\* falls short of 20, 10 and 3 by less than the rounding of the quotient;
\* those of 1/13 and 1/7 lie above the fraction too, but their quotient
\* stays below 13 and 7.
CycleProbabilities ==
    {<<1, 20>>, <<1, 10>>, <<1, 13>>, <<1, 7>>, <<3, 20>>, <<1, 5>>, <<1, 4>>,
     <<1, 3>>, <<2, 5>>, <<1, 2>>, <<3, 4>>, <<1, 1>>}

InitCycle ==
    /\ status = "running"
    /\ nodes = [id \in 0 .. 0 |-> NodeNew(id, <<4, 4>>)]
    /\ alive_node_count = 1
    /\ current_round = 0
    /\ \E p \in CycleProbabilities :
        /\ protocol = LeachNew(p)
        /\ args = [kind |-> "Leach", p |-> p,
                   width |-> DEPLOYMENT_AREA_CELLS, height |-> DEPLOYMENT_AREA_CELLS,
                   node_count |-> 1]
    /\ pre_nodes = <<>>
    /\ selected_cluster_head_ids = <<>>
    /\ kmeans = KMeansNew(0)
    /\ call = NoCall

CycleUpdate == LeachRound(MaxRoundCycle)

NextCycle == CycleUpdate

SpecCycle == InitCycle /\ [][NextCycle]_vars

----------------------------------------------------------------------------
(* Leach runs on chosen networks: Simulator::update with a Leach protocol,   *)
(* round after round.                                                        *)

\* The networks and probabilities of these runs: a far pair with a near node
\* between them, closer to one of the two; a node half way between two
\* others; a far pair that depletes itself.
LeachScenarios ==
    {[layout |-> <<<<1, 1>>, <<9, 9>>, <<4, 4>>>>, p |-> <<1, 2>>],
     [layout |-> <<<<4, 4>>, <<1, 1>>, <<7, 7>>>>, p |-> <<1, 2>>],
     [layout |-> <<<<1, 1>>, <<9, 9>>>>, p |-> <<1, 2>>]}

InitLeach ==
    /\ status = "running"
    /\ \E scenario \in LeachScenarios :
        /\ nodes = [id \in 0 .. Len(scenario.layout) - 1 |->
                        NodeNew(id, scenario.layout[id + 1])]
        /\ alive_node_count = Len(scenario.layout)
        /\ args = [kind |-> "Leach", p |-> scenario.p,
                   width |-> DEPLOYMENT_AREA_CELLS, height |-> DEPLOYMENT_AREA_CELLS,
                   node_count |-> Len(scenario.layout)]
        /\ protocol = LeachNew(scenario.p)
    /\ current_round = 0
    /\ pre_nodes = <<>>
    /\ selected_cluster_head_ids = <<>>
    /\ kmeans = KMeansNew(0)
    /\ call = NoCall

LeachRunUpdate == LeachRound(MaxRoundLeach)

NextLeach == LeachRunUpdate

SpecLeach == InitLeach /\ [][NextLeach]_vars

----------------------------------------------------------------------------
(* The runs of both protocols on the chosen networks, side by side.          *)

InitRuns == InitLeach \/ InitZcr

NextRuns == NextLeach \/ NextZcr

SpecRuns == InitRuns /\ [][NextRuns]_vars

----------------------------------------------------------------------------
(* Runs in which a node dies while the others go on: the Leach runs above,   *)
(* and a Zcr run with p = 1 on a far node at (150 m, 250 m) that relays      *)
(* through a near node at (200 m, 250 m), which pays more per round than     *)
(* the far node and is depleted first.                                       *)

RelayLayout == <<<<3, 5>>, <<4, 5>>>>

InitRelay ==
    /\ status = "running"
    /\ nodes = [id \in 0 .. Len(RelayLayout) - 1 |-> NodeNew(id, RelayLayout[id + 1])]
    /\ alive_node_count = Len(RelayLayout)
    /\ args = [kind |-> "Zcr", p |-> <<1, 1>>,
               width |-> DEPLOYMENT_AREA_CELLS, height |-> DEPLOYMENT_AREA_CELLS,
               node_count |-> Len(RelayLayout)]
    /\ protocol = ZcrNew(<<1, 1>>)
    /\ current_round = 0
    /\ pre_nodes = <<>>
    /\ selected_cluster_head_ids = <<>>
    /\ kmeans = KMeansNew(0)
    /\ call = NoCall

RelayRunUpdate == ZcrRound(MaxRoundRelay)

InitDeath == InitLeach \/ InitRelay

NextDeath == LeachRunUpdate \/ RelayRunUpdate

SpecDeath == InitDeath /\ [][NextDeath]_vars

----------------------------------------------------------------------------
(* KMeans on its own: KMeans::new(n_clusters), then fit on a node list.      *)

FitPositions == {<<1, 1>>, <<2, 1>>, <<4, 4>>, <<9, 9>>}

\* The node lists handed to fit: up to MaxFitNodes nodes on FitPositions.
FitNetworks ==
    UNION {{[id \in 0 .. n - 1 |-> NodeNew(id, layout[id])] :
                layout \in [0 .. n - 1 -> FitPositions]} : n \in 1 .. MaxFitNodes}

InitFit ==
    /\ status = "running"
    /\ nodes \in FitNetworks
    /\ alive_node_count = NodeCount(nodes)
    /\ current_round = 0
    /\ protocol = NoProtocol
    /\ args = [kind |-> "none", p |-> <<0, 1>>,
               width |-> DEPLOYMENT_AREA_CELLS, height |-> DEPLOYMENT_AREA_CELLS,
               node_count |-> NodeCount(nodes)]
    /\ pre_nodes = <<>>
    /\ selected_cluster_head_ids = <<>>
    /\ \E n_clusters \in 1 .. NodeCount(nodes) : kmeans = KMeansNew(n_clusters)
    /\ call = NoCall

\* kmeans.fit(&nodes) on the unfitted instance.
Fit ==
    /\ kmeans.iterations = 0
    /\ \E seeds \in Sample(NodeCount(nodes), kmeans.n_clusters) :
        kmeans' = KMeansFit(kmeans.n_clusters, nodes, seeds)
    /\ UNCHANGED <<status, nodes, current_round, alive_node_count, protocol, args,
                   pre_nodes, selected_cluster_head_ids, call>>

NextFit == Fit

SpecFit == InitFit /\ [][NextFit]_vars

----------------------------------------------------------------------------
(* The radio model on its own: calculate_transmit_energy and the zone test   *)
(* of assign_zones applied to one distance around the threshold.             *)

\* The threshold and its f32 neighbours, and the whole decimetres around it
\* (as the f32 nearest to dm / 10).
Distances ==
    {[FS_MULTIPATH_THRESHOLD_DISTANCE_M EXCEPT !.m = @ + k] :
        k \in (0 - DistanceSpan) .. DistanceSpan}
    \cup {F32Div(F32FromInt(877 + k), F32FromInt(10)) :
            k \in (0 - DistanceSpan) .. DistanceSpan}

InitRadio ==
    /\ status = "new"
    /\ nodes = <<>>
    /\ current_round = 0
    /\ alive_node_count = 0
    /\ protocol = NoProtocol
    /\ args = [kind |-> "none", p |-> <<0, 1>>, width |-> 0, height |-> 0,
               node_count |-> 0]
    /\ pre_nodes = <<>>
    /\ selected_cluster_head_ids = <<>>
    /\ kmeans = KMeansNew(0)
    /\ \E distance_m \in Distances :
        call = [fn |-> "pending", distance_m |-> distance_m]

CallTransmitEnergy ==
    /\ call.fn = "pending"
    /\ call' = [fn |-> "calculate_transmit_energy",
                distance_m |-> call.distance_m,
                energy |-> calculate_transmit_energy(DATA_PACKET_SIZE_BITS,
                                                     call.distance_m)]
    /\ UNCHANGED <<status, nodes, current_round, alive_node_count, protocol, args,
                   pre_nodes, selected_cluster_head_ids, kmeans>>

CallAssignZone ==
    /\ call.fn = "pending"
    /\ call' = [fn |-> "assign_zones",
                distance_m |-> call.distance_m,
                zone |-> ZoneOfDistance(call.distance_m)]
    /\ UNCHANGED <<status, nodes, current_round, alive_node_count, protocol, args,
                   pre_nodes, selected_cluster_head_ids, kmeans>>

NextRadio == CallTransmitEnergy \/ CallAssignZone

SpecRadio == InitRadio /\ [][NextRadio]_vars

----------------------------------------------------------------------------
(* Properties *)

AliveNodes(ns) == {i \in DOMAIN ns : ns[i].is_alive}

\* The squared distance of two grid positions, in cells^2: a whole number,
\* ordered as the distances are.
DistSq(a, b) == (a[1] - b[1]) * (a[1] - b[1]) + (a[2] - b[2]) * (a[2] - b[2])

NodeDistSq(a, b) == DistSq(nodes[a].position, nodes[b].position)

BaseDistSq(a) == DistSq(nodes[a].position, BASE_STATION_POSITION)

\* The distance between nodes a and b, in metres.
NodeDistance(a, b) == Distance(nodes[a].position, nodes[b].position)

\* The energy left of e after it is charged c, times times in a row.
RECURSIVE ChargedTimes(_, _, _)
ChargedTimes(e, c, times) ==
    IF times = 0 THEN e ELSE ChargedTimes(F32Sub(e, c), c, times - 1)

\* C1: after construction and after every round of either protocol,
\* alive_node_count is the number of nodes flagged is_alive.
C1_AliveCountMatchesFlags ==
    status = "running" => alive_node_count = Cardinality(AliveNodes(nodes))

\* A Leach round has marked one of several nodes dead.
C1_Witness ==
    /\ status = "running"
    /\ protocol.kind = "Leach"
    /\ \E i \in DOMAIN pre_nodes : pre_nodes[i].is_alive /\ ~nodes[i].is_alive
    /\ alive_node_count >= 1

\* C2: no round of either protocol raises a node's remaining energy: after
\* every round each node has at most the energy it had when the round began.
C2_EnergyNeverIncreases ==
    \A i \in DOMAIN pre_nodes :
        F32LessEq(nodes[i].remaining_energy_j, pre_nodes[i].remaining_energy_j)

\* A round charged a member and the cluster head it joined.
C2_Witness ==
    /\ status = "running"
    /\ \E i, j \in DOMAIN pre_nodes :
        /\ nodes[i].cluster_head_id = j
        /\ F32Less(nodes[i].remaining_energy_j, pre_nodes[i].remaining_energy_j)
        /\ F32Less(nodes[j].remaining_energy_j, pre_nodes[j].remaining_energy_j)

\* C3: death is permanent: no step turns a false is_alive flag true again.
C3_DeathIsPermanent ==
    [][\A i \in DOMAIN nodes : ~nodes[i].is_alive => ~nodes'[i].is_alive]_vars

\* A node that was dead when the last round began went through that round.
C3_Witness ==
    /\ status = "running"
    /\ current_round >= 2
    /\ \E i \in DOMAIN pre_nodes : ~pre_nodes[i].is_alive /\ ~nodes[i].is_alive

\* C4, as claimed: once the round cap is reached every node is dead.
C4_AllDeadByRoundCap ==
    current_round >= MAX_SIMULATION_ROUNDS => alive_node_count = 0

\* C4, amended: alive_node_count never goes below 0, and a caller that keeps
\* advancing rounds eventually brings it to 0 (not necessarily within the
\* round cap).
C4_EventuallyAllDead ==
    [](alive_node_count >= 0) /\ <>(alive_node_count = 0)

\* The last node died after the round cap had passed.
C4_Witness ==
    /\ status = "running"
    /\ NodeCount(nodes) > 0
    /\ alive_node_count = 0
    /\ current_round > MAX_SIMULATION_ROUNDS
    /\ \E i \in DOMAIN nodes : pre_nodes[i].is_alive /\ ~nodes[i].is_alive

\* C5, as claimed: the run loop never executes more than
\* MAX_SIMULATION_ROUNDS rounds.
C5_RoundsWithinCap == current_round <= MAX_SIMULATION_ROUNDS

\* C6, as claimed: after a successful construction no call of update aborts.
C6_NoRoundAborts == status # "aborted"

\* A probability in (0, 1].
ValidProbability(p) == p[1] > 0 /\ p[1] <= p[2]

\* C7, as claimed: construction succeeds only for a probability in (0, 1],
\* positive area dimensions and a positive node count.
C7_InvalidArgumentsRejected ==
    status \in {"running", "aborted"} =>
        /\ ValidProbability(args.p)
        /\ args.width > 0
        /\ args.height > 0
        /\ args.node_count > 0

\* C8: with p in (0, 1] every Zcr round that reaches the clustering engine
\* asks it for k clusters, 1 <= k <= number of nodes, so that the sampling of
\* the seeds never aborts; k is the f32 product p * alive_node_count rounded
\* up, which is ceil(p * alive_node_count), or one more where the rounding of
\* the product lifts a whole number (p * alive <= k <= p * alive + 1).
C8_ClusterCountWithinNodes ==
    (protocol.kind = "Zcr" /\ ValidProbability(protocol.cluster_head_probability)) =>
        /\ status # "aborted"
        /\ kmeans.n_clusters > 0 =>
            LET p == protocol.cluster_head_probability
                alive_before == Cardinality(AliveNodes(pre_nodes))
            IN  /\ kmeans.n_clusters = protocol.num_cluster_heads
                /\ kmeans.n_clusters >= 1
                /\ kmeans.n_clusters <= NodeCount(nodes)
                /\ kmeans.n_clusters * p[2] >= p[1] * alive_before
                /\ (kmeans.n_clusters - 1) * p[2] <= p[1] * alive_before

\* A Zcr round clustered all the nodes of a network into as many clusters.
C8_Witness ==
    /\ status = "running"
    /\ protocol.kind = "Zcr"
    /\ ValidProbability(protocol.cluster_head_probability)
    /\ kmeans.n_clusters >= 2
    /\ kmeans.n_clusters = NodeCount(nodes)

\* C9: with Leach at p = 1 the threshold is 1 and eligibility is reset every
\* round, so after every round each node still alive is a cluster head.
C9_ProbabilityOneElectsAll ==
    (/\ status = "running"
     /\ protocol.kind = "Leach"
     /\ protocol.cluster_head_probability = <<1, 1>>
     /\ current_round >= 1) =>
        /\ protocol.election_threshold = F32FromInt(1)
        /\ current_round % protocol.cycle_length_rounds = 0
        /\ \A i \in DOMAIN nodes : nodes[i].is_alive => nodes[i].is_cluster_head

\* A Leach round at p = 1 elected every node of a network of several nodes.
C9_Witness ==
    /\ status = "running"
    /\ protocol.kind = "Leach"
    /\ protocol.cluster_head_probability = <<1, 1>>
    /\ current_round >= 2
    /\ NodeCount(nodes) >= 2
    /\ \A i \in DOMAIN nodes : nodes[i].is_alive /\ nodes[i].is_cluster_head

\* The score comparison of the last Zcr round for nodes a and b of one cluster.
LastScoreExceeds(a, b) ==
    LET centroid == kmeans.centroids[kmeans.clusters[a]]
    IN  ScoreExceeds(pre_nodes[a].remaining_energy_j, nodes[a].position,
                     pre_nodes[b].remaining_energy_j, nodes[b].position,
                     centroid)

\* Nodes i < j were candidates of one cluster with equal scores, the highest
\* of the cluster.
TiedAtMaximum(i, j) ==
    /\ i < j
    /\ nodes[i].is_alive /\ nodes[j].is_alive
    /\ kmeans.clusters[i] = kmeans.clusters[j]
    /\ ~LastScoreExceeds(i, j) /\ ~LastScoreExceeds(j, i)
    /\ \A l \in DOMAIN nodes :
        (nodes[l].is_alive /\ kmeans.clusters[l] = kmeans.clusters[i])
            => ~LastScoreExceeds(l, i)

\* C10: of two alive nodes of one clustering group whose equal scores are the
\* group's maximum, the higher-indexed is not the cluster head, and the
\* lower-indexed is (unless a node of still lower index ties with them).
C10_TieSelectsLowerIndex ==
    (status = "running" /\ protocol.kind = "Zcr" /\ kmeans.n_clusters > 0) =>
        \A i, j \in DOMAIN nodes :
            TiedAtMaximum(i, j) =>
                /\ selected_cluster_head_ids[kmeans.clusters[i]] # j
                /\ ~nodes[j].is_cluster_head
                /\ (\A l \in DOMAIN nodes : l < i => ~TiedAtMaximum(l, i)) =>
                    /\ selected_cluster_head_ids[kmeans.clusters[i]] = i
                    /\ nodes[i].is_cluster_head

\* A Zcr round met a tie at the maximum and made the lower-indexed node head.
C10_Witness ==
    /\ status = "running" /\ protocol.kind = "Zcr" /\ kmeans.n_clusters > 0
    /\ \E i, j \in DOMAIN nodes :
        /\ TiedAtMaximum(i, j)
        /\ nodes[i].is_cluster_head
        /\ nodes[j].cluster_head_id = i

\* The transmit energy with the free-space amplifier term.
FreeSpaceEnergy(distance_m) ==
    F32Add(F32Mul(DATA_PACKET_SIZE_BITS, ENERGY_PER_BIT_ELECTRONICS_J),
           F32Mul(F32Mul(DATA_PACKET_SIZE_BITS, ENERGY_FREE_SPACE_AMP_J),
                  F32Mul(distance_m, distance_m)))

\* The transmit energy with the multipath amplifier term.
MultipathEnergy(distance_m) ==
    F32Add(F32Mul(DATA_PACKET_SIZE_BITS, ENERGY_PER_BIT_ELECTRONICS_J),
           F32Mul(F32Mul(DATA_PACKET_SIZE_BITS, ENERGY_MULTIPATH_AMP_J),
                  F32Mul(F32Mul(distance_m, distance_m),
                         F32Mul(distance_m, distance_m))))

\* distance_m is at most the threshold, for a distance between 64 m and
\* 128 m: it has the exponent of the threshold and at most its mantissa.
UpToThreshold(distance_m) ==
    /\ distance_m.s = 1
    /\ distance_m.e = FS_MULTIPATH_THRESHOLD_DISTANCE_M.e
    /\ distance_m.m <= FS_MULTIPATH_THRESHOLD_DISTANCE_M.m

\* C13: the free-space term applies to every distance up to and including
\* the threshold (87.7 m), the multipath term only beyond it; a cluster head
\* at a distance up to and including the threshold is put in the near zone.
C13_ThresholdIsInclusive ==
    /\ call.fn = "calculate_transmit_energy" =>
          call.energy =
            IF UpToThreshold(call.distance_m)
            THEN FreeSpaceEnergy(call.distance_m)
            ELSE MultipathEnergy(call.distance_m)
    /\ call.fn = "assign_zones" =>
          (call.zone = 1 <=> UpToThreshold(call.distance_m))

\* The transmit energy at exactly the threshold is the free-space one, which
\* differs from the multipath one there.
C13_Witness ==
    /\ call.fn = "calculate_transmit_energy"
    /\ call.distance_m = FS_MULTIPATH_THRESHOLD_DISTANCE_M
    /\ call.energy = FreeSpaceEnergy(FS_MULTIPATH_THRESHOLD_DISTANCE_M)
    /\ call.energy # MultipathEnergy(FS_MULTIPATH_THRESHOLD_DISTANCE_M)

\* The last round was a Zcr round that went through clustering.
ZcrRoundClustered ==
    status = "running" /\ protocol.kind = "Zcr" /\ kmeans.n_clusters > 0

FarClusterHeads ==
    {protocol.zone_cluster_heads[0][k] : k \in 1 .. Len(protocol.zone_cluster_heads[0])}

NearClusterHeads ==
    {protocol.zone_cluster_heads[1][k] : k \in 1 .. Len(protocol.zone_cluster_heads[1])}

\* The nearest near-zone cluster head of far cluster head f: the first of the
\* near bucket at the least distance from f.
NearestNearCh(f) ==
    LET near == protocol.zone_cluster_heads[1]
        k == CHOOSE k \in 1 .. Len(near) :
                /\ \A j \in 1 .. Len(near) : NodeDistSq(f, near[k]) <= NodeDistSq(f, near[j])
                /\ \A j \in 1 .. k - 1 : NodeDistSq(f, near[k]) < NodeDistSq(f, near[j])
    IN  near[k]

\* Far cluster head f has a near-zone cluster head strictly closer than the
\* base station.
HasCloserRelay(f) ==
    /\ NearClusterHeads # {}
    /\ NodeDistSq(f, NearestNearCh(f)) < BaseDistSq(f)

\* (receive + aggregation) x member_count of cluster head i.
MemberCharge(i) ==
    F32Mul(ReceiveAndAggregate, F32FromInt(Len(nodes[i].cluster_member_ids)))

\* The energy of far cluster head f after the round in which it sent its
\* packet over distance_m: charged for its members, then for the packet.
FarChEnergy(f, distance_m) ==
    F32Sub(F32Sub(pre_nodes[f].remaining_energy_j, MemberCharge(f)),
           PacketEnergy(distance_m))

\* The energy of near-zone cluster head n after the round in which relayed
\* far cluster heads relayed through it: charged one receive + aggregation
\* for each of them, then for its members, then for its uplink.
NearChEnergy(n, relayed) ==
    F32Sub(F32Sub(ChargedTimes(pre_nodes[n].remaining_energy_j,
                               ReceiveAndAggregate, relayed),
                  MemberCharge(n)),
           PacketEnergy(nodes[n].distance_to_base_station_m))

\* C11: a far-zone cluster head whose nearest near-zone cluster head is
\* strictly closer than the base station pays for its members and for a
\* transmission over the relay distance, and that near-zone cluster head pays
\* one receive + aggregation for it on top of its own members and uplink.
C11_RelayCharges ==
    ZcrRoundClustered =>
        \A f \in FarClusterHeads :
            HasCloserRelay(f) =>
                /\ nodes[f].remaining_energy_j
                      = FarChEnergy(f, NodeDistance(f, NearestNearCh(f)))
                /\ nodes[NearestNearCh(f)].remaining_energy_j
                      = NearChEnergy(NearestNearCh(f),
                            Cardinality({g \in FarClusterHeads :
                                HasCloserRelay(g)
                                    /\ NearestNearCh(g) = NearestNearCh(f)}))
                /\ F32Less(nodes[NearestNearCh(f)].remaining_energy_j,
                           NearChEnergy(NearestNearCh(f), 0))

\* A far cluster head with a member relayed through a near cluster head.
C11_Witness ==
    /\ ZcrRoundClustered
    /\ \E f \in FarClusterHeads :
        /\ HasCloserRelay(f)
        /\ Len(nodes[f].cluster_member_ids) >= 1
        /\ F32Less(nodes[f].remaining_energy_j, pre_nodes[f].remaining_energy_j)

\* C12: a far-zone cluster head without a near-zone cluster head, or whose
\* nearest one is at least as far as the base station, pays for its members
\* and for a transmission over its distance to the base station; no near-zone
\* cluster head pays for it, and the round completes.
C12_DirectCharges ==
    /\ (protocol.kind = "Zcr" /\ ValidProbability(protocol.cluster_head_probability))
            => status # "aborted"
    /\ ZcrRoundClustered =>
        \A f \in FarClusterHeads :
            ~HasCloserRelay(f) =>
                /\ nodes[f].remaining_energy_j
                      = FarChEnergy(f, nodes[f].distance_to_base_station_m)
                /\ \A n \in NearClusterHeads :
                      nodes[n].remaining_energy_j
                        = NearChEnergy(n,
                              Cardinality({g \in FarClusterHeads \ {f} :
                                  HasCloserRelay(g) /\ NearestNearCh(g) = n}))

\* A far cluster head transmitted directly with a near cluster head exactly
\* as far away as the base station.
C12_Witness ==
    /\ ZcrRoundClustered
    /\ \E f \in FarClusterHeads :
        /\ NearClusterHeads # {}
        /\ NodeDistSq(f, NearestNearCh(f)) = BaseDistSq(f)
        /\ F32Less(nodes[f].remaining_energy_j, pre_nodes[f].remaining_energy_j)

\* C17: a Zcr round with no node alive (so that no cluster head is wanted)
\* changes no node, not alive_node_count and no zone bucket, does not run the
\* clustering engine, and completes.
C17_IdleRoundChangesNothing ==
    [][(/\ status = "running"
        /\ protocol.kind = "Zcr"
        /\ alive_node_count = 0)
       => /\ nodes' = nodes
          /\ alive_node_count' = alive_node_count
          /\ protocol'.zone_cluster_heads = protocol.zone_cluster_heads
          /\ kmeans'.n_clusters = 0
          /\ status' = "running"]_vars

\* A network whose nodes have all died went through a further round.
C17_Witness ==
    /\ status = "running"
    /\ protocol.kind = "Zcr"
    /\ NodeCount(nodes) > 0
    /\ alive_node_count = 0
    /\ kmeans.n_clusters = 0
    /\ pre_nodes = nodes

\* C14: fit with one cluster returns one centroid, the mean of all node
\* positions, and assigns every node to cluster 0, whatever the seed.
C14_SingleClusterIsMean ==
    (kmeans.iterations > 0 /\ kmeans.n_clusters = 1) =>
        /\ DOMAIN kmeans.centroids = {0}
        /\ kmeans.centroids[0].sx * NodeCount(nodes)
             = SumOver(nodes, DOMAIN nodes, 1) * kmeans.centroids[0].c
        /\ kmeans.centroids[0].sy * NodeCount(nodes)
             = SumOver(nodes, DOMAIN nodes, 2) * kmeans.centroids[0].c
        /\ \A i \in DOMAIN nodes : kmeans.clusters[i] = 0

\* One cluster was fitted to several nodes, seeded with a node that is not at
\* their mean.
C14_Witness ==
    /\ kmeans.iterations > 0
    /\ kmeans.n_clusters = 1
    /\ NodeCount(nodes) >= 2
    /\ nodes[kmeans.seeds[0]].position[1] * NodeCount(nodes)
         # SumOver(nodes, DOMAIN nodes, 1)
    /\ \A i \in DOMAIN nodes : kmeans.clusters[i] = 0

\* The position of the seed of cluster i in the last fit.
SeedPosition(i) == nodes[kmeans.seeds[i]].position

\* The group seed i induces: the nodes for which it is the first seed at the
\* least distance.
InducedGroup(i) ==
    {n \in DOMAIN nodes :
        /\ \A j \in DOMAIN kmeans.seeds :
              DistSq(nodes[n].position, SeedPosition(i))
                <= DistSq(nodes[n].position, SeedPosition(j))
        /\ \A j \in DOMAIN kmeans.seeds :
              j < i => DistSq(nodes[n].position, SeedPosition(i))
                         < DistSq(nodes[n].position, SeedPosition(j))}

\* Every seed is the mean of the group it induces.
SeedsAreMeans ==
    \A i \in DOMAIN kmeans.seeds :
        \/ InducedGroup(i) = {}
        \/ /\ SeedPosition(i)[1] * Cardinality(InducedGroup(i))
                = SumOver(nodes, InducedGroup(i), 1)
           /\ SeedPosition(i)[2] * Cardinality(InducedGroup(i))
                = SumOver(nodes, InducedGroup(i), 2)

\* C15: when the sampled seeds are already the means of the groups they
\* induce, fit stops after exactly one assignment/update iteration, with the
\* centroids at the seeds.
C15_OptimalSeedsConvergeAtOnce ==
    (kmeans.iterations > 0 /\ SeedsAreMeans) =>
        /\ kmeans.iterations = 1
        /\ \A i \in DOMAIN kmeans.seeds :
              /\ kmeans.centroids[i].sx = SeedPosition(i)[1] * kmeans.centroids[i].c
              /\ kmeans.centroids[i].sy = SeedPosition(i)[2] * kmeans.centroids[i].c

\* Two clusters were fitted to three nodes at two separate places, seeded
\* with one node of each place.
C15_Witness ==
    /\ kmeans.iterations = 1
    /\ kmeans.n_clusters = 2
    /\ NodeCount(nodes) = 3
    /\ SeedsAreMeans
    /\ SeedPosition(0) # SeedPosition(1)
    /\ \A i \in DOMAIN kmeans.seeds : InducedGroup(i) # {}

\* The last round was a Leach round that elected no cluster head.
LeachRoundElectedNone ==
    /\ status = "running"
    /\ protocol.kind = "Leach"
    /\ current_round >= 1
    /\ selected_cluster_head_ids = <<>>

\* C16: a Leach round that elects no cluster head leaves every node's energy
\* as it was, assigns no cluster head and builds no member list; it only
\* marks the depleted nodes dead (with the matching alive_node_count), clears
\* the transient fields and resets eligibility at a cycle boundary.
C16_NoHeadNoCharge ==
    LeachRoundElectedNone =>
        /\ \A i \in DOMAIN nodes :
              /\ nodes[i].remaining_energy_j = pre_nodes[i].remaining_energy_j
              /\ nodes[i].cluster_head_id = None
              /\ nodes[i].cluster_member_ids = <<>>
              /\ ~nodes[i].is_cluster_head
              /\ nodes[i].id = pre_nodes[i].id
              /\ nodes[i].position = pre_nodes[i].position
              /\ nodes[i].distance_to_base_station_m
                    = pre_nodes[i].distance_to_base_station_m
              /\ nodes[i].is_alive
                    = (/\ pre_nodes[i].is_alive
                       /\ F32Less(F32Zero, pre_nodes[i].remaining_energy_j))
              /\ nodes[i].is_eligible_for_ch
                    = (\/ pre_nodes[i].is_eligible_for_ch
                       \/ current_round % protocol.cycle_length_rounds = 0)
        /\ alive_node_count = Cardinality(AliveNodes(nodes))

\* A Leach round elected nobody while a node was alive, and marked a depleted
\* node dead.
C16_Witness ==
    /\ LeachRoundElectedNone
    /\ \E i \in DOMAIN nodes : nodes[i].is_alive
    /\ \E i \in DOMAIN nodes : pre_nodes[i].is_alive /\ ~nodes[i].is_alive

\* C18, as claimed: after every round a node is flagged is_alive exactly when
\* its remaining energy is > 0, and alive_node_count is the number of nodes
\* with remaining energy > 0.
C18_AliveIffEnergyPositive ==
    status = "running" =>
        /\ \A i \in DOMAIN nodes :
              nodes[i].is_alive <=> F32Less(F32Zero, nodes[i].remaining_energy_j)
        /\ alive_node_count
             = Cardinality({i \in DOMAIN nodes :
                              F32Less(F32Zero, nodes[i].remaining_energy_j)})

\* C19: for p in (0, 1] the denominator 1 - p * (r mod cycle_length) of every
\* round is positive, and the threshold Leach computes is a value in (0, 1]
\* that equals min(1, p / denominator) to single precision: with the exact
\* value num / den and the threshold t = m / 2^k, |t - num / den| is at most
\* 2^-18 of num / den.
C19_ThresholdInUnitInterval ==
    (/\ status = "running"
     /\ protocol.kind = "Leach"
     /\ ValidProbability(protocol.cluster_head_probability)
     /\ current_round >= 1) =>
        LET p == protocol.cluster_head_probability
            t == protocol.election_threshold
            denom == p[2] - p[1] * (current_round % protocol.cycle_length_rounds)
            num == IF p[1] >= denom THEN 1 ELSE p[1]
            den == IF p[1] >= denom THEN 1 ELSE denom
            k == 0 - t.e
            error == IF t.m * den >= num * 2^k THEN t.m * den - num * 2^k
                     ELSE num * 2^k - t.m * den
        IN  /\ denom > 0
            /\ t.s = 1 /\ t.m > 0
            /\ k >= 23
            /\ t.m <= 2^k
            /\ error <= num * 2^(k - 18)

\* In the last round of a cycle of ten rounds the threshold reached 1.
C19_Witness ==
    /\ status = "running"
    /\ protocol.kind = "Leach"
    /\ protocol.cluster_head_probability = <<1, 10>>
    /\ current_round % protocol.cycle_length_rounds = 9
    /\ protocol.election_threshold = F32FromInt(1)

RoundingBelow(k) == IF k >= 24 THEN 2^(k - 24) ELSE 0
RoundingAbove(k) == IF k >= 24 THEN 2^(k - 24) ELSE 1

C21_ElectedOncePerCycle ==
    [][(status = "running" /\ protocol.kind = "Leach" /\ status' = "running") =>
        \A i \in DOMAIN nodes :
            LET reset == current_round' % protocol.cycle_length_rounds = 0
            IN  /\ nodes'[i].is_cluster_head =>
                    /\ nodes[i].is_eligible_for_ch \/ reset
                    /\ ~nodes'[i].is_eligible_for_ch
                /\ (~nodes[i].is_eligible_for_ch /\ ~reset) =>
                    /\ ~nodes'[i].is_cluster_head
                    /\ ~nodes'[i].is_eligible_for_ch]_vars

\* A node elected earlier in a cycle of ten rounds went through the last
\* round of the cycle, where the threshold is 1, without being elected.
C21_Witness ==
    /\ status = "running"
    /\ protocol.kind = "Leach"
    /\ protocol.cycle_length_rounds = 10
    /\ current_round % protocol.cycle_length_rounds = 9
    /\ protocol.election_threshold = F32FromInt(1)
    /\ pre_nodes[0].is_alive /\ F32Less(F32Zero, pre_nodes[0].remaining_energy_j)
    /\ ~pre_nodes[0].is_eligible_for_ch
    /\ ~nodes[0].is_cluster_head

\* The last round was a Leach round that elected at least one cluster head.
LeachRoundElectedSome ==
    /\ status = "running"
    /\ protocol.kind = "Leach"
    /\ current_round >= 1
    /\ selected_cluster_head_ids # <<>>

\* The cluster heads elected in the last Leach round.
ElectedIds == {selected_cluster_head_ids[k] : k \in DOMAIN selected_cluster_head_ids}

\* ch is the k-th elected cluster head, no elected cluster head is closer to
\* node i, and every cluster head elected before it is strictly farther.
FirstNearestElected(i, ch) ==
    \E k \in DOMAIN selected_cluster_head_ids :
        /\ selected_cluster_head_ids[k] = ch
        /\ \A m \in DOMAIN selected_cluster_head_ids :
              /\ NodeDistSq(i, ch) <= NodeDistSq(i, selected_cluster_head_ids[m])
              /\ m < k => NodeDistSq(i, ch) < NodeDistSq(i, selected_cluster_head_ids[m])

\* How many times node i stands in the member list of node c.
Occurrences(c, i) ==
    Cardinality({k \in DOMAIN nodes[c].cluster_member_ids :
                    nodes[c].cluster_member_ids[k] = i})

\* The energy of the elected cluster head c after phase 3: charged the
\* receive and aggregation energy times the number of members, then the
\* uplink.
LeachChEnergy(c, members) ==
    F32Sub(F32Sub(pre_nodes[c].remaining_energy_j,
                  F32Mul(ReceiveAndAggregate, F32FromInt(members))),
           PacketEnergy(nodes[c].distance_to_base_station_m))

\* C22: after a Leach round that elected a cluster head, every alive node
\* that is not a cluster head points at the first elected cluster head at
\* minimum distance, has paid the transmit energy over that distance and
\* nothing else, and stands once in that cluster head's member list and in no
\* other; a dead node or a cluster head points at no cluster head, stands in
\* no member list and has paid no member's transmit energy.
C22_MembersJoinNearestHead ==
    LeachRoundElectedSome =>
        \A i \in DOMAIN nodes :
            IF nodes[i].is_alive /\ ~nodes[i].is_cluster_head
            THEN \E ch \in ElectedIds :
                    /\ FirstNearestElected(i, ch)
                    /\ nodes[i].cluster_head_id = ch
                    /\ nodes[i].remaining_energy_j
                         = F32Sub(pre_nodes[i].remaining_energy_j,
                                  PacketEnergy(NodeDistance(i, ch)))
                    /\ \A c \in DOMAIN nodes :
                          Occurrences(c, i) = (IF c = ch THEN 1 ELSE 0)
            ELSE /\ nodes[i].cluster_head_id = None
                 /\ \A c \in DOMAIN nodes : Occurrences(c, i) = 0
                 /\ nodes[i].remaining_energy_j
                      = IF nodes[i].is_cluster_head
                        THEN LeachChEnergy(i,
                                Cardinality({m \in DOMAIN nodes :
                                                nodes[m].cluster_head_id = i}))
                        ELSE pre_nodes[i].remaining_energy_j

\* A node at the same distance from two elected cluster heads joined the one
\* elected first and paid for the uplink.
C22_Witness ==
    /\ LeachRoundElectedSome
    /\ \E i \in DOMAIN nodes, a, b \in ElectedIds :
        /\ a < b
        /\ NodeDistSq(i, a) = NodeDistSq(i, b)
        /\ nodes[i].cluster_head_id = a
        /\ F32Less(nodes[i].remaining_energy_j, pre_nodes[i].remaining_energy_j)

\* C23: after a Leach round every elected cluster head has paid the receive
\* and aggregation energy once per member registered on it in the round plus
\* one transmit energy over its distance to the base station, and nothing
\* else; a node not elected in the round has paid at most the transmit energy
\* to the cluster head it joined.
C23_HeadsPayPerMember ==
    (status = "running" /\ protocol.kind = "Leach" /\ current_round >= 1) =>
        \A i \in DOMAIN nodes :
            IF i \in ElectedIds
            THEN /\ nodes[i].is_cluster_head
                 /\ Len(nodes[i].cluster_member_ids)
                      = Cardinality({m \in DOMAIN nodes : nodes[m].cluster_head_id = i})
                 /\ nodes[i].remaining_energy_j
                      = LeachChEnergy(i, Len(nodes[i].cluster_member_ids))
            ELSE /\ ~nodes[i].is_cluster_head
                 /\ nodes[i].remaining_energy_j
                      = IF nodes[i].cluster_head_id = None
                        THEN pre_nodes[i].remaining_energy_j
                        ELSE F32Sub(pre_nodes[i].remaining_energy_j,
                                    PacketEnergy(
                                        NodeDistance(i, nodes[i].cluster_head_id)))

\* A round charged one cluster head for two members and another for none.
C23_Witness ==
    /\ status = "running"
    /\ protocol.kind = "Leach"
    /\ \E c \in ElectedIds :
        /\ Len(nodes[c].cluster_member_ids) = 2
        /\ nodes[c].remaining_energy_j = LeachChEnergy(c, 2)
        /\ F32Less(nodes[c].remaining_energy_j, LeachChEnergy(c, 1))

\* The nodes the last Zcr round's clustering put in group c.
ClusterGroup(c) == {i \in DOMAIN nodes : kmeans.clusters[i] = c}

\* The nodes of group c alive after the round's death marking.
AliveCandidates(c) == {i \in ClusterGroup(c) : nodes[i].is_alive}

\* The cluster heads the last Zcr round selected.
SelectedIds ==
    {selected_cluster_head_ids[c] : c \in DOMAIN selected_cluster_head_ids} \ {None}

\* C24: after a Zcr round that clustered, each group without a node alive
\* after the death marking has no cluster head, and each other group has
\* one: a node of the group, alive, whose score no alive node of the group
\* exceeds.  The cluster heads are at most n_clusters, one per group, and the
\* nodes flagged as cluster heads are exactly the selected ones.
C24_HeadIsBestAliveOfGroup ==
    ZcrRoundClustered =>
        /\ DOMAIN selected_cluster_head_ids = 0 .. kmeans.n_clusters - 1
        /\ \A c \in DOMAIN selected_cluster_head_ids :
              IF AliveCandidates(c) = {}
              THEN selected_cluster_head_ids[c] = None
              ELSE /\ selected_cluster_head_ids[c] \in AliveCandidates(c)
                   /\ \A j \in AliveCandidates(c) :
                         ~LastScoreExceeds(j, selected_cluster_head_ids[c])
        /\ Cardinality(SelectedIds) <= kmeans.n_clusters
        /\ \A i \in DOMAIN nodes :
              /\ nodes[i].is_cluster_head <=> i \in SelectedIds
              /\ ~nodes[i].is_alive => i \notin SelectedIds

\* A group of two alive nodes got the node of higher score, not the first of
\* the group, as its cluster head.
C24_Witness ==
    /\ ZcrRoundClustered
    /\ \E c \in DOMAIN selected_cluster_head_ids :
          \E i \in AliveCandidates(c) :
              /\ i < selected_cluster_head_ids[c]
              /\ LastScoreExceeds(selected_cluster_head_ids[c], i)

\* C25: after a Zcr round that clustered, every alive node that is not a
\* cluster head and whose group has a cluster head points at that cluster
\* head, has paid the transmit energy over the distance to it and nothing
\* else, and stands once in its member list and in no other; a dead node or
\* a cluster head points at no cluster head and stands in no member list,
\* and a dead node has paid nothing.
C25_MembersJoinGroupHead ==
    ZcrRoundClustered =>
        \A i \in DOMAIN nodes :
            LET ch == selected_cluster_head_ids[kmeans.clusters[i]]
            IN  IF nodes[i].is_alive /\ ~nodes[i].is_cluster_head /\ ch # None
                THEN /\ nodes[i].cluster_head_id = ch
                     /\ kmeans.clusters[ch] = kmeans.clusters[i]
                     /\ nodes[i].remaining_energy_j
                          = F32Sub(pre_nodes[i].remaining_energy_j,
                                   PacketEnergy(NodeDistance(i, ch)))
                     /\ \A c \in DOMAIN nodes :
                           Occurrences(c, i) = (IF c = ch THEN 1 ELSE 0)
                ELSE /\ nodes[i].cluster_head_id = None
                     /\ \A c \in DOMAIN nodes : Occurrences(c, i) = 0
                     /\ ~nodes[i].is_cluster_head =>
                           nodes[i].remaining_energy_j = pre_nodes[i].remaining_energy_j

\* A member joined the cluster head of its group, group 1, while group 0 had
\* a cluster head of its own.
C25_Witness ==
    /\ ZcrRoundClustered
    /\ \E i \in DOMAIN nodes :
        /\ kmeans.clusters[i] = 1
        /\ nodes[i].is_alive /\ ~nodes[i].is_cluster_head
        /\ nodes[i].cluster_head_id = selected_cluster_head_ids[1]
        /\ selected_cluster_head_ids[0] # None
        /\ F32Less(nodes[i].remaining_energy_j, pre_nodes[i].remaining_energy_j)

\* C26: after every round of either protocol the back-references agree.
\* Node n points at c exactly when n stands in c's member list, where it
\* stands once; a node pointed at is flagged as cluster head and alive; a
\* node flagged as cluster head points at no one; only a node flagged as
\* cluster head has members; no node stands in two member lists.
C26_BackReferencesConsistent ==
    status = "running" =>
        \A n \in DOMAIN nodes :
            /\ nodes[n].cluster_head_id \in DOMAIN nodes \cup {None}
            /\ \A k \in DOMAIN nodes[n].cluster_member_ids :
                  nodes[n].cluster_member_ids[k] \in DOMAIN nodes
            /\ \A c \in DOMAIN nodes :
                  /\ Occurrences(c, n) = (IF nodes[n].cluster_head_id = c THEN 1 ELSE 0)
                  /\ nodes[n].cluster_head_id = c =>
                        nodes[c].is_cluster_head /\ nodes[c].is_alive
                  /\ \A d \in DOMAIN nodes :
                        (Occurrences(c, n) > 0 /\ Occurrences(d, n) > 0) => c = d
            /\ nodes[n].is_cluster_head => nodes[n].cluster_head_id = None
            /\ nodes[n].cluster_member_ids # <<>> => nodes[n].is_cluster_head

\* A cluster head that had a member in the round before has none in this
\* round, in which another node is the cluster head and it is that node's
\* member.
C26_Witness ==
    /\ status = "running"
    /\ current_round >= 2
    /\ \E c, d \in DOMAIN nodes :
        /\ c # d
        /\ pre_nodes[c].cluster_member_ids # <<>>
        /\ nodes[c].cluster_head_id = d
        /\ nodes[c].cluster_member_ids = <<>>
        /\ Occurrences(d, c) = 1

\* C27: a round of either protocol that begins with a node flagged dead
\* leaves that node's remaining energy as it is, does not elect or select it
\* as cluster head, does not assign it to a cluster head, puts it in no
\* member list and in no zone bucket (so it is no relay target), and leaves
\* it dead.
C27_DeadNodesTakeNoPart ==
    [][(status = "running" /\ status' = "running") =>
        \A i \in DOMAIN nodes :
            ~nodes[i].is_alive =>
                /\ ~nodes'[i].is_alive
                /\ nodes'[i].remaining_energy_j = nodes[i].remaining_energy_j
                /\ ~nodes'[i].is_cluster_head
                /\ nodes'[i].cluster_head_id = None
                /\ nodes'[i].cluster_member_ids = <<>>
                /\ \A k \in DOMAIN selected_cluster_head_ids' :
                      selected_cluster_head_ids'[k] # i
                /\ \A c \in DOMAIN nodes :
                      /\ nodes'[c].cluster_head_id # i
                      /\ \A k \in DOMAIN nodes'[c].cluster_member_ids :
                            nodes'[c].cluster_member_ids[k] # i
                /\ protocol.kind = "Zcr" =>
                      \A z \in 0 .. 1 :
                          \A k \in DOMAIN protocol'.zone_cluster_heads[z] :
                              protocol'.zone_cluster_heads[z][k] # i]_vars

\* A near node that was dead when the round began kept its energy through
\* the round, in which a far cluster head closer to it than to the base
\* station transmitted to the base station directly.
C27_Witness ==
    /\ status = "running"
    /\ protocol.kind = "Zcr"
    /\ current_round >= 2
    /\ \E i, f \in DOMAIN nodes :
        /\ ~pre_nodes[i].is_alive
        /\ WithinThreshold(nodes[i].distance_to_base_station_m)
        /\ nodes[i].remaining_energy_j = pre_nodes[i].remaining_energy_j
        /\ f \in FarClusterHeads
        /\ NodeDistSq(f, i) < BaseDistSq(f)
        /\ nodes[f].remaining_energy_j
             = F32Sub(pre_nodes[f].remaining_energy_j,
                      PacketEnergy(nodes[f].distance_to_base_station_m))

====
